---- MODULE Spec2Model ----
(***************************************************************************)
(* Model of the momentum detection engine of polygon_websocket.py:        *)
(* handle_msg -> update_aggregates -> rolling volume -> check_spike.      *)
(*                                                                         *)
(* Representation of the Python values:                                    *)
(*   - a timestamp is an Eastern-Time minute of the day (0..1439); the     *)
(*     code truncates every trade timestamp to the minute before use;      *)
(*   - a price is an integer number of cents, a size a number of shares;   *)
(*   - a percentage is kept in thousandths of a percent, a relative        *)
(*     volume in thousandths, a spread ratio in millionths, each the       *)
(*     floor of the exact quotient, so that every threshold test of the    *)
(*     code (x >= c, x < c with c a multiple of the unit) is decided       *)
(*     exactly as on the exact quotient;                                   *)
(*   - a quality score is summed in thousandths of a point and rounded to  *)
(*     tenths of a point, as round(score, 1) does;                         *)
(*   - None is NoneVal for a bar field, and [known |-> FALSE] for a spread.*)
(***************************************************************************)
EXTENDS Integers, Sequences, FiniteSets, TLC

VARIABLES
  now,                 \* wall clock (get_et_time), minute of the day
  minute_aggregates,   \* <<minute, symbol>> -> bar
  latest_quotes,       \* symbol -> [bid, ask]
  momentum_flags,      \* symbol -> flag
  watch_alerts,        \* sequence of watch records
  breakout_quality,    \* symbol -> confirmed quality record
  rolling_volume_3min, \* symbol -> <<v0, v1, v2>>
  alert_tracker,       \* symbol -> minute of the last tracked alert
  price_history,       \* symbol -> sequence of <<wall minute, price, size>>
  sent,                \* every message handed to send_telegram, in order
  ev,                  \* what the last call of check_spike saw and did
  hist,                \* what the feed has delivered so far (history only)
  threads,             \* the main thread, the ingest threads, the snapshot file
  telegram,            \* the Telegram queue, its worker threads and its callers
  replay,              \* the replay driver: its bars, its position, its result
  calc,                \* the last call of a pure function: its arguments, its result
  locks                \* the quote lock's owner and the position of each thread

vars == <<now, minute_aggregates, latest_quotes, momentum_flags, watch_alerts,
          breakout_quality, rolling_volume_3min, alert_tracker, price_history,
          sent, ev, hist, threads, telegram, replay, calc,
          locks>>

----------------------------------------------------------------------------
(* Bounds of the model and input alphabets *)

MaxEvents == 3

Symbols == {"AAA"}
Prices == {1000, 1040, 1093}
Sizes == {100, 40000}
Advances == {1, 5}
Lags == {0, 1}
StartMinutes == {565, 1195}
QuoteInputs == {<<1000, 1025>>}

NoneVal == -1

----------------------------------------------------------------------------
(* Generic helpers *)

Min(a, b) == IF a < b THEN a ELSE b
Max(a, b) == IF a > b THEN a ELSE b
Abs(a) == IF a < 0 THEN 0 - a ELSE a

\* dict.get(key, default)
Get(d, k, default) == IF k \in DOMAIN d THEN d[k] ELSE default
\* d[key] = value
Put(d, k, v) == [x \in DOMAIN d \cup {k} |-> IF x = k THEN v ELSE d[x]]
\* d.pop(key, None)
Pop(d, k) == [x \in DOMAIN d \ {k} |-> d[x]]

EmptyMap == [x \in {} |-> 0]

\* The element of a one-element set. In The({e(v) : v \in {x}}) the value x is
\* computed once, before e uses it.
The(S) == CHOOSE r \in S : TRUE

RECURSIVE SumOver(_, _)
SumOver(S, f) ==
  IF S = {} THEN 0
  ELSE LET x == CHOOSE y \in S : TRUE IN f[x] + SumOver(S \ {x}, f)

----------------------------------------------------------------------------
(* Clock and session (check_spike, lines 536-555) *)

\* A faulty session test that keeps 09:30 in the pre-market.
SessionOfLateOpen(m) ==
  LET hour == (m % 1440) \div 60
      minute == m % 60
  IN IF (4 <= hour /\ hour < 9) \/ (hour = 9 /\ minute <= 30) THEN "PREMARKET"
     ELSE IF (hour = 9 /\ minute > 30) \/ (9 < hour /\ hour < 16) THEN "REGULAR"
     ELSE IF 16 <= hour /\ hour < 20 THEN "POSTMARKET"
     ELSE "CLOSED"

SessionOf(m) ==
  LET hour == (m % 1440) \div 60
      minute == m % 60
  IN IF (4 <= hour /\ hour < 9) \/ (hour = 9 /\ minute < 30) THEN "PREMARKET"
     ELSE IF (hour = 9 /\ minute >= 30) \/ (9 < hour /\ hour < 16) THEN "REGULAR"
     ELSE IF 16 <= hour /\ hour < 20 THEN "POSTMARKET"
     ELSE "CLOSED"

\* The thresholds check_spike loads for a session.
SessionParams(session) ==
  IF session = "PREMARKET" THEN
    [vol_thresh |-> 30000, spread_limit |-> 30000,
     pct_thresh_early |-> 3800, pct_thresh_confirm |-> 7800,
     min_rel_vol_stage1 |-> 2400, min_rel_vol_stage2 |-> 4100,
     watch_rel_vol |-> 1800, watch_pct |-> 2500]
  ELSE IF session = "REGULAR" THEN
    [vol_thresh |-> 90000, spread_limit |-> 20000,
     pct_thresh_early |-> 4500, pct_thresh_confirm |-> 7800,
     min_rel_vol_stage1 |-> 2500, min_rel_vol_stage2 |-> 4300,
     watch_rel_vol |-> 2000, watch_pct |-> 3000]
  ELSE
    [vol_thresh |-> 24000, spread_limit |-> 38000,
     pct_thresh_early |-> 3800, pct_thresh_confirm |-> 7000,
     min_rel_vol_stage1 |-> 2300, min_rel_vol_stage2 |-> 4000,
     watch_rel_vol |-> 1700, watch_pct |-> 2500]

ALERT_COOLDOWN_MINUTES == 5
MIN_QUALITY_STAGE1 == 500
MinGatePrimary == 600
MinGateAlt == 580
min_trade_count == 3

----------------------------------------------------------------------------
(* Cooldown (can_send_alert, mark_alerted) *)

can_send_alert(tracker, symbol, minute_ts) ==
  IF symbol \notin DOMAIN tracker THEN TRUE
  ELSE minute_ts - tracker[symbol] >= ALERT_COOLDOWN_MINUTES

mark_alerted(tracker, symbol, minute_ts) == Put(tracker, symbol, minute_ts)

----------------------------------------------------------------------------
(* Quote book (get_spread_ratio) *)

UnknownSpread == [known |-> FALSE, v |-> 0]
KnownSpread(x) == [known |-> TRUE, v |-> x]

get_spread_ratio(quotes, aggs, wall, symbol, fallback_price) ==
  LET hasq == /\ symbol \in DOMAIN quotes
              /\ quotes[symbol].bid # 0 /\ quotes[symbol].ask # 0
              /\ quotes[symbol].bid > 0 /\ quotes[symbol].ask > 0
              /\ quotes[symbol].bid + quotes[symbol].ask > 0
      price == IF fallback_price = NoneVal \/ fallback_price <= 0
               THEN IF <<wall, symbol>> \in DOMAIN aggs
                    THEN aggs[<<wall, symbol>>].close ELSE NoneVal
               ELSE fallback_price
  IN IF hasq
     THEN KnownSpread((2 * (quotes[symbol].ask - quotes[symbol].bid) * 1000000)
                        \div (quotes[symbol].bid + quotes[symbol].ask))
     ELSE IF price # NoneVal /\ price > 0
          THEN IF price >= 500 THEN KnownSpread(1000)
               ELSE IF price >= 100 THEN KnownSpread(5000)
               ELSE KnownSpread(10000)
          ELSE UnknownSpread

----------------------------------------------------------------------------
(* Quality scorer (compute_quality_score); the result is in tenths *)

\* A faulty scorer that returns the sum as it is.
Unclamped(score) == score

\* The clamp to [0, 100] (line 520), in thousandths.
ClampScore(score) == Max(0, Min(score, 100000))

\* A faulty scorer that never subtracts the parabolic penalty.
NoParabolicPenalty(pct_change, volume_sustained) == 0

\* The parabolic penalty (lines 507-512), in thousandths: (excess / 6) * 6.
ParabolicPenalty(pct_change, volume_sustained) ==
  IF pct_change >= 11000 /\ ~volume_sustained
  THEN Min(pct_change - 11000, 6000) ELSE 0

compute_quality_score(rel_vol, pct_change, volume, vol_thresh, trade_count, min_trades, spread_ratio, spread_limit, price_expansion_pct, acceleration, volume_sustained) ==
  LET rel_part == (Min(rel_vol, 8000) * 28) \div 8
      pct_part == (Min(Abs(pct_change), 14000) * 18) \div 14
      vol_part == IF vol_thresh > 0
                  THEN IF volume >= 2 * vol_thresh THEN 14000
                       ELSE ((volume * 1000) \div vol_thresh) * 7
                  ELSE 0
      trade_ratio == Min((trade_count * 1000) \div Max(min_trades, 1), 3000)
      trade_part == trade_ratio * 4
      spread_part == IF spread_ratio.known /\ spread_limit > 0
                     THEN Max(0, ((spread_limit - spread_ratio.v) * 1000)
                                   \div spread_limit) * 10
                     ELSE 5000
      base_expansion == IF price_expansion_pct >= 600
                        THEN Min(price_expansion_pct \div 6, 600) ELSE 0
      follow == Min(base_expansion + (IF acceleration THEN 300 ELSE 0)
                      + (IF volume_sustained THEN 300 ELSE 0), 1000)
      follow_part == follow * 18
      parabolic == ParabolicPenalty(pct_change, volume_sustained)
      churn == IF trade_count > 0 /\ volume >= 200 * trade_count THEN 0
               ELSE IF trade_count > 0 /\ volume >= 120 * trade_count THEN 2000
               ELSE 4000
      score == rel_part + pct_part + vol_part + trade_part + spread_part
                 + follow_part - parabolic - churn
      clamped == ClampScore(score)
  IN (clamped + 50) \div 100

----------------------------------------------------------------------------
(* Bar aggregator (update_aggregates) *)

NewBar == [open |-> NoneVal, close |-> 0, high |-> NoneVal, low |-> NoneVal,
           volume |-> 0, value |-> 0, count |-> 0, vwap |-> 0]

\* A faulty fold that sets open on every trade, as close is set.
FoldTradeOpenEveryTrade(agg, price, size) ==
  [open |-> price,
   close |-> price,
   high |-> IF agg.high = NoneVal \/ price > agg.high THEN price ELSE agg.high,
   low |-> IF agg.low = NoneVal \/ price < agg.low THEN price ELSE agg.low,
   volume |-> agg.volume + size,
   value |-> agg.value + price * size,
   count |-> agg.count + 1,
   vwap |-> agg.vwap]

\* The bar after one trade has been folded into it (lines 937-950).
FoldTrade(agg, price, size) ==
  [open |-> IF agg.open = NoneVal THEN price ELSE agg.open,
   close |-> price,
   high |-> IF agg.high = NoneVal \/ price > agg.high THEN price ELSE agg.high,
   low |-> IF agg.low = NoneVal \/ price < agg.low THEN price ELSE agg.low,
   volume |-> agg.volume + size,
   value |-> agg.value + price * size,
   count |-> agg.count + 1,
   vwap |-> agg.vwap]

\* New bar map and the tuple update_aggregates returns.
update_aggregates(aggs, symbol, price, size, minute_ts) ==
  LET key == <<minute_ts, symbol>>
      agg == FoldTrade(Get(aggs, key, NewBar), price, size)
  IN [aggs |-> Put(aggs, key, agg),
      minute_ts |-> minute_ts,
      volume |-> agg.volume,
      pct_change |-> IF agg.open # 0 /\ agg.open > 0
                     THEN ((agg.close - agg.open) * 100000) \div agg.open
                     ELSE 0,
      open |-> agg.open,
      close |-> agg.close,
      count |-> agg.count,
      vwap |-> IF agg.volume > 0 THEN agg.value \div agg.volume ELSE price]

\* update_rolling_volume on the defaultdict rolling_volume_3min
update_rolling_volume(rolling, symbol, current_volume) ==
  LET vols == Get(rolling, symbol, <<0, 0, 0>>)
  IN Put(rolling, symbol, <<vols[2], vols[3], current_volume>>)

----------------------------------------------------------------------------
(* Staged detector (check_spike)                                           *)
(* st is the program state the call reads and writes:                      *)
(* [minute_aggregates, latest_quotes, rolling_volume_3min, momentum_flags, *)
(*  watch_alerts, breakout_quality, alert_tracker, sent, ev]               *)

\* The values check_spike derives from its arguments before any stage.
SpikeContext(st, wall, symbol, current_pct, current_vol, minute_ts, open_price, close_price, trade_count, vwap) ==
  LET session == SessionOf(minute_ts)
      vols == Get(st.rolling_volume_3min, symbol, <<0, 0, 0>>)
      n == Len(vols)
      total == SumOver(1..n, vols)
  IN [symbol |-> symbol, dt |-> minute_ts, minute_ts |-> minute_ts,
      session |-> session, P |-> SessionParams(session),
      price |-> close_price, open_price |-> open_price, vwap |-> vwap,
      high |-> IF <<minute_ts, symbol>> \in DOMAIN st.minute_aggregates
               THEN st.minute_aggregates[<<minute_ts, symbol>>].high
               ELSE close_price,
      spread_ratio |-> get_spread_ratio(st.latest_quotes, st.minute_aggregates,
                                        wall, symbol, close_price),
      vol_now |-> current_vol, current_pct |-> current_pct,
      trade_count |-> trade_count,
      vols |-> vols, len |-> Max(n, 1), vol_sum |-> total,
      rel_vol |-> (1000 * Max(n, 1) * current_vol) \div Max(total, Max(n, 1)),
      vol_declining |-> n >= 3 /\ vols[n] > 0 /\ vols[n - 1] > 0
                          /\ 10 * current_vol < 4 * vols[n - 1]]

SpreadBelow(spread_ratio, limit) == ~spread_ratio.known \/ spread_ratio.v < limit

WatchPass(c) ==
  /\ c.rel_vol >= c.P.watch_rel_vol
  /\ c.current_pct >= c.P.watch_pct
  /\ c.trade_count >= 2
  /\ SpreadBelow(c.spread_ratio, (c.P.spread_limit * 14) \div 10)
  /\ ~c.vol_declining

Stage1Pass(c) ==
  /\ c.rel_vol >= c.P.min_rel_vol_stage1
  /\ c.current_pct >= c.P.pct_thresh_early
  /\ SpreadBelow(c.spread_ratio, c.P.spread_limit)
  /\ c.trade_count >= min_trade_count
  /\ ~c.vol_declining

FastBreakCond(c) ==
  /\ c.vol_sum > 0
  /\ c.len * c.vol_now >= 6 * c.vol_sum
  /\ c.current_pct >= 9000
  /\ SpreadBelow(c.spread_ratio, (c.P.spread_limit * 16) \div 10)

\* Quality of a candidate without expansion context (Watch, Stage 1).
PlainQuality(c, min_trades) ==
  compute_quality_score(c.rel_vol, c.current_pct, c.vol_now, c.P.vol_thresh,
                        c.trade_count, min_trades, c.spread_ratio,
                        c.P.spread_limit, 0, FALSE, FALSE)

Alert(kind, c, quality) ==
  [kind |-> kind, symbol |-> c.symbol, ts |-> c.dt, quality |-> quality]

\* What the sink does with a request: it answers 200, it answers with another
\* status, or the request raises (timeout, connection error).
SinkOutcomes == {"ok", "http_error", "exception"}

\* A faulty send_telegram without the handler: a failed request raises.
SendRaisesOnException(outcome) == outcome = "exception"

\* send_telegram handles every exception of the request (lines 206-208).
SendRaises(outcome) == FALSE

\* send_telegram(message): the message is handed to the sink, which has it
\* only if the request succeeds; ev records the attempt and its result.
send_telegram(st, alert) ==
  [st EXCEPT !.sent = IF st.hist.sink = "ok" THEN Append(@, alert) ELSE @,
             !.ev.alerts = Append(@, alert.kind),
             !.ev.delivered = Append(@, st.hist.sink = "ok"),
             !.ev.raised = SendRaises(st.hist.sink)]

EvStart(st, c) ==
  [symbol |-> c.symbol, ts |-> c.minute_ts, session |-> c.session,
   outcome |-> "none",
   watch_pass |-> FALSE, stage1_pass |-> FALSE,
   flag_before |-> c.symbol \in DOMAIN st.momentum_flags,
   flag_created |-> FALSE, flag_at_stage2 |-> FALSE,
   minutes_since_flag |-> 0, expansion |-> 0, required |-> 0,
   expansion_gate |-> FALSE, volume_sustained |-> FALSE,
   acceleration |-> FALSE, spread_gate |-> FALSE, trade_gate |-> FALSE,
   stage2_pass |-> FALSE, alt_pass |-> FALSE, quality |-> 0,
   fb_cond |-> c.session # "CLOSED" /\ FastBreakCond(c),
   alerts |-> <<>>, delivered |-> <<>>, raised |-> FALSE, shifted |-> FALSE]

\* Stage 0 (lines 602-643)
WatchStage(st, c) ==
  IF ~WatchPass(c) THEN st
  ELSE The({
       LET s1 == [st EXCEPT !.ev.watch_pass = TRUE,
                            !.watch_alerts = Append(@,
                               [symbol |-> c.symbol, timestamp |-> c.dt,
                                session |-> c.session, price |-> c.price,
                                pct |-> c.current_pct, rel_vol |-> c.rel_vol,
                                volume |-> c.vol_now, trades |-> c.trade_count,
                                quality |-> watch_quality])]
       IN IF watch_quality >= 450 /\ can_send_alert(st.alert_tracker, c.symbol, c.dt)
          THEN send_telegram(
                 [s1 EXCEPT !.alert_tracker = mark_alerted(@, c.symbol, c.dt)],
                 Alert("WATCH", c, watch_quality))
          ELSE s1
       : watch_quality \in {PlainQuality(c, 3)}})

\* A faulty send of the higher stages that asks the cooldown first, as the
\* Watch stage does.
HeldByWatchCooldown(tracker, symbol, dt) == ~can_send_alert(tracker, symbol, dt)

\* Stage 2 (line 888) and Stage 3 (line 927) call send_telegram without
\* asking can_send_alert: the tracker never holds their alert back.
HeldByCooldown(tracker, symbol, dt) == FALSE

\* Stage 3 (lines 894-928)
FastBreakStage(st0, c) == The({
  LET s1 == [st EXCEPT !.ev.outcome = "done"]
  IN IF st.ev.raised THEN st
     ELSE IF FastBreakCond(c)
             /\ ~HeldByCooldown(st.alert_tracker, c.symbol, c.dt)
     THEN send_telegram(s1, Alert("FAST-BREAK", c,
            compute_quality_score(c.rel_vol, c.current_pct, c.vol_now,
              c.P.vol_thresh, c.trade_count, min_trade_count, c.spread_ratio,
              c.P.spread_limit, c.current_pct, TRUE, ~c.vol_declining)))
     ELSE s1
  : st \in {st0}})

\* Minutes of the bars of a symbol between two minutes, both included.
\* The keys are compared by their .timestamp(), which a key without time
\* zone (one restored by load_previous_minute) has too: it is read in the
\* local zone of the process, taken here to be Eastern Time.
BarKeys(aggs, symbol, from, to) ==
  {x \in DOMAIN aggs : x[2] = symbol /\ x[1] >= from /\ x[1] <= to}

\* _cumulative_volume_since_flag (lines 689-702)
CumulativeVolumeSinceFlag(aggs, symbol, flag_minute, minute_ts) ==
  SumOver(BarKeys(aggs, symbol, flag_minute, minute_ts),
          [k \in BarKeys(aggs, symbol, flag_minute, minute_ts)
             |-> aggs[k].volume])

\* total_trades_since_flag (lines 764-773)
TotalTradesSinceFlag(aggs, symbol, flag_minute, minute_ts) ==
  SumOver(BarKeys(aggs, symbol, flag_minute, minute_ts),
          [k \in BarKeys(aggs, symbol, flag_minute, minute_ts)
             |-> aggs[k].count])

\* A faulty expiry test that already fires at 4 minutes.
ExpiryDueFromFour(minutes_since_flag, expansion, required) ==
  minutes_since_flag >= 4 /\ 2 * expansion < required

\* The expiry test of a flag (line 736).
ExpiryDue(minutes_since_flag, expansion, required) ==
  minutes_since_flag > 4 /\ 2 * expansion < required

\* The Stage-2 measurements of a flagged symbol (lines 707-810).
Stage2Facts(st, c) ==
  LET flag_data == st.momentum_flags[c.symbol]
      setup_price == flag_data.setup_price
      setup_volume == flag_data.setup_volume
      flag_minute == flag_data.flag_minute
      expansion == IF setup_price > 0
                   THEN ((c.price - setup_price) * 100000) \div setup_price
                   ELSE 0
      cumulative_volume == CumulativeVolumeSinceFlag(st.minute_aggregates,
                             c.symbol, flag_minute, c.minute_ts)
      minutes_since_flag == c.dt - flag_data.time
      early == 10 * minutes_since_flag < 11
      required == IF early THEN 600
                  ELSE Max(600, c.P.pct_thresh_confirm - c.P.pct_thresh_early + 1000)
      expansion_gate == IF early
                        THEN expansion >= required
                               \/ c.current_pct >= c.P.pct_thresh_confirm
                        ELSE expansion >= required
      volume_sustained ==
        \/ /\ setup_volume > 0
           /\ \/ 4 * cumulative_volume >= 5 * setup_volume
              \/ 100 * c.vol_now >= 55 * setup_volume
        \/ /\ c.P.vol_thresh > 0
           /\ 2 * cumulative_volume >= c.P.vol_thresh
      acceleration ==
        \/ c.rel_vol >= c.P.min_rel_vol_stage2 - 400
        \/ /\ c.P.vol_thresh > 0
           /\ 100 * cumulative_volume >= 55 * Max(c.P.vol_thresh, 1)
      spread_gate == SpreadBelow(c.spread_ratio, c.P.spread_limit)
      trade_gate == TotalTradesSinceFlag(st.minute_aggregates, c.symbol,
                                         flag_minute, c.minute_ts)
                      >= Max(5, (min_trade_count * 16) \div 10)
      stage2_pass == expansion_gate /\ volume_sustained /\ acceleration
                       /\ spread_gate /\ trade_gate
      prev_minute_vol == IF Len(c.vols) >= 2 THEN c.vols[Len(c.vols) - 1] ELSE 0
      alt_pass ==
        /\ ~stage2_pass
        /\ 2 <= minutes_since_flag /\ minutes_since_flag <= 3
        /\ 1000 * c.price >= 985 * setup_price
        /\ expansion >= 400
        /\ expansion >= c.P.pct_thresh_early + 1000
        /\ 2 * c.vol_now >= setup_volume
        /\ (prev_minute_vol = 0 \/ 2 * prev_minute_vol >= setup_volume)
        /\ c.rel_vol >= c.P.min_rel_vol_stage1 + 300
        /\ SpreadBelow(c.spread_ratio, c.P.spread_limit)
  IN [expansion |-> expansion, cumulative_volume |-> cumulative_volume,
      minutes_since_flag |-> minutes_since_flag, required |-> required,
      expansion_gate |-> expansion_gate, volume_sustained |-> volume_sustained,
      acceleration |-> acceleration, spread_gate |-> spread_gate,
      trade_gate |-> trade_gate, stage2_pass |-> stage2_pass,
      alt_pass |-> alt_pass,
      expired |-> ExpiryDue(minutes_since_flag, expansion, required)]

\* A faulty Stage 1 that sets a flag whenever the criteria pass.
Stage1CreatesOnEveryPass(flags, symbol, stage1_pass) == stage1_pass

\* Stage 1 sets a flag only for a symbol that has none (line 656).
Stage1Creates(flags, symbol, stage1_pass) ==
  stage1_pass /\ symbol \notin DOMAIN flags

\* A faulty gate that asks of a confirmation only what Stage 1 asks.
MinGateOfStage1(stage2_pass) == MIN_QUALITY_STAGE1

\* The quality a confirmation must reach (line 850).
MinGate(stage2_pass) == IF stage2_pass THEN MinGatePrimary ELSE MinGateAlt

\* A faulty confirmation that leaves the flag in place.
ClearFlagForgotten(flags, symbol) == flags

\* The flag is gone after a confirmation (line 892).
ClearFlag(flags, symbol) == Pop(flags, symbol)

\* A faulty expiry that leaves the flag in place.
ExpireFlagForgotten(flags, symbol) == flags

\* The flag is gone after its expiry (line 739).
ExpireFlag(flags, symbol) == Pop(flags, symbol)

\* Stage 2 (lines 704-892), then Stage 3 unless the call has returned.
Stage2Stage(st0, c) == The({
  IF st.ev.raised THEN st
  ELSE IF c.symbol \notin DOMAIN st.momentum_flags THEN FastBreakStage(st, c)
  ELSE The({
    LET s1 == [st EXCEPT !.ev.flag_at_stage2 = TRUE,
                         !.ev.minutes_since_flag = f.minutes_since_flag,
                         !.ev.expansion = f.expansion,
                         !.ev.required = f.required,
                         !.ev.expansion_gate = f.expansion_gate,
                         !.ev.volume_sustained = f.volume_sustained,
                         !.ev.acceleration = f.acceleration,
                         !.ev.spread_gate = f.spread_gate,
                         !.ev.trade_gate = f.trade_gate,
                         !.ev.stage2_pass = f.stage2_pass,
                         !.ev.alt_pass = f.alt_pass]
        confirmed_quality ==
          compute_quality_score(c.rel_vol, c.current_pct, c.vol_now,
            c.P.vol_thresh, c.trade_count, min_trade_count, c.spread_ratio,
            c.P.spread_limit, f.expansion, TRUE, f.volume_sustained)
        kind == IF f.stage2_pass THEN "BREAKOUT CONFIRMED" ELSE "ALT CONFIRM"
    IN IF f.expired
       THEN [s1 EXCEPT !.momentum_flags = ExpireFlag(@, c.symbol),
                       !.ev.outcome = "expired"]
       ELSE IF f.stage2_pass \/ f.alt_pass
       THEN IF confirmed_quality < MinGate(f.stage2_pass)
            THEN [s1 EXCEPT !.ev.quality = confirmed_quality,
                            !.ev.outcome = "gatefail"]
            ELSE LET s2 == IF HeldByCooldown(st.alert_tracker, c.symbol, c.dt)
                           THEN [s1 EXCEPT !.ev.quality = confirmed_quality]
                           ELSE send_telegram(
                                  [s1 EXCEPT !.ev.quality = confirmed_quality],
                                  Alert(kind, c, confirmed_quality))
                 IN IF s2.ev.raised THEN s2
                    ELSE FastBreakStage(
                      [s2 EXCEPT !.breakout_quality = Put(@, c.symbol,
                                    [quality |-> confirmed_quality,
                                     timestamp |-> c.dt,
                                     expansion_pct |-> f.expansion,
                                     cumulative_volume |-> f.cumulative_volume]),
                                 !.momentum_flags = ClearFlag(@, c.symbol)],
                      c)
       ELSE FastBreakStage(s1, c)
    : f \in {Stage2Facts(st, c)}})
  : st \in {st0}})

\* Stage 1 (lines 645-686), then the later stages unless the call has returned.
Stage1Stage(st0, c) == The({
  LET stage1_pass == Stage1Pass(c)
      prelim_quality == PlainQuality(c, min_trade_count)
      s1 == [st EXCEPT !.ev.stage1_pass = stage1_pass]
  IN IF st.ev.raised THEN st
     ELSE IF Stage1Creates(st.momentum_flags, c.symbol, stage1_pass)
     THEN IF prelim_quality < MIN_QUALITY_STAGE1
          THEN [s1 EXCEPT !.ev.outcome = "discard"]
          ELSE Stage2Stage(
                 [s1 EXCEPT !.ev.flag_created = TRUE,
                            !.momentum_flags = Put(@, c.symbol,
                               [time |-> c.dt, session |-> c.session,
                                intraday_high |-> c.high,
                                setup_price |-> c.price,
                                setup_volume |-> c.vol_now,
                                flag_minute |-> c.minute_ts,
                                quality_score |-> prelim_quality])],
                 c)
     ELSE Stage2Stage(s1, c)
  : st \in {st0}})

\* A faulty session gate that lets every minute through.
SessionClosedNever(session) == FALSE

\* check_spike returns before any stage outside the three sessions
\* (lines 588-589).
SessionClosed(session) == session = "CLOSED"

check_spike(st, wall, symbol, current_pct, current_vol, minute_ts, open_price, close_price, trade_count, vwap) ==
  The({
    LET s0 == [st EXCEPT !.ev = EvStart(st, c)]
    IN IF SessionClosed(c.session) THEN [s0 EXCEPT !.ev.outcome = "closed"]
       ELSE Stage1Stage(WatchStage(s0, c), c)
    : c \in {SpikeContext(st, wall, symbol, current_pct, current_vol,
                          minute_ts, open_price, close_price, trade_count,
                          vwap)}})

----------------------------------------------------------------------------
(* Ingest (handle_msg) *)

\* update_price_history: keep the last 5 minutes
update_price_history(history, symbol, wall, price, size) ==
  LET old == Get(history, symbol, <<>>)
      all == Append(old, <<wall, price, size>>)
  IN Put(history, symbol, SelectSeq(all, LAMBDA e : e[1] > wall - 5))

\* The rolling window is shifted when the trade's minute is before the wall
\* clock's minute (line 1020).
ShiftDue(minute_ts, current_minute) == minute_ts < current_minute

\* One trade message of a target ticker (lines 993-1027).
handle_trade(st, wall, symbol, price, size, timestamp) ==
  The({
    LET due == ShiftDue(r.minute_ts, wall)
    IN The({
         [check_spike(s1, wall, symbol, r.pct_change, r.volume, r.minute_ts,
                      r.open, r.close, r.count, r.vwap)
            EXCEPT !.ev.shifted = due]
         : s1 \in {[st EXCEPT
                      !.price_history =
                         update_price_history(@, symbol, wall, price, size),
                      !.minute_aggregates = r.aggs,
                      !.rolling_volume_3min =
                         IF due THEN update_rolling_volume(@, symbol, r.volume)
                         ELSE @]}})
    : r \in {update_aggregates(st.minute_aggregates, symbol, price, size,
                               timestamp)}})

\* One quote message (lines 977-991).
handle_quote(st, symbol, bid, ask) ==
  IF bid # 0 /\ ask # 0
  THEN [st EXCEPT !.latest_quotes = Put(@, symbol, [bid |-> bid, ask |-> ask])]
  ELSE st

----------------------------------------------------------------------------
(* The live system: the wall clock, the trade feed and the quote feed *)

NoEval ==
  [symbol |-> "", ts |-> 0, session |-> "", outcome |-> "none",
   watch_pass |-> FALSE, stage1_pass |-> FALSE, flag_before |-> FALSE,
   flag_created |-> FALSE, flag_at_stage2 |-> FALSE,
   minutes_since_flag |-> 0, expansion |-> 0, required |-> 0,
   expansion_gate |-> FALSE, volume_sustained |-> FALSE,
   acceleration |-> FALSE, spread_gate |-> FALSE, trade_gate |-> FALSE,
   stage2_pass |-> FALSE, alt_pass |-> FALSE, quality |-> 0,
   fb_cond |-> FALSE, alerts |-> <<>>, delivered |-> <<>>, raised |-> FALSE,
   shifted |-> FALSE]

\* No access to a shared structure has been made.
NoAccess == [thread |-> "none", k |-> 0, touched |-> {}, holding |-> {}]

\* Before main() has called run_session: no ingest thread, no snapshot file.
NoThreads ==
  [main |-> "loop", ws |-> <<>>,
   file |-> [day |-> NoneVal, bars |-> EmptyMap, memory |-> EmptyMap,
             corrupt |-> FALSE, renamed |-> NoneVal, loaded |-> FALSE],
   access |-> NoAccess]

\* The Telegram queue is empty and no worker has been started.
NoTelegram ==
  [queue |-> <<>>, running |-> FALSE, workers |-> <<>>, thread |-> 0,
   starter |-> "idle",
   caller |-> [pc |-> "idle", msg |-> 0], next |-> 1, posted |-> <<>>,
   call |-> [msg |-> 0, found_full |-> FALSE, done |-> TRUE,
             returned |-> FALSE]]

\* No replay driver has run: driver is the script that runs in this process,
\* run counts the calls of its backtest_symbol, bars is the bar list of the
\* call, i the bars already processed, alerts the alerts each call recorded
\* in its result, processed the watch-list indices the call has recorded,
\* window the rolling window and completed the volumes of the earlier bars
\* seen when check_spike was last called.
NoReplay ==
  [driver |-> "none", run |-> 0, start |-> 0, bars |-> <<>>, i |-> 0,
   alerts |-> <<>>, processed |-> {}, window |-> <<>>, completed |-> <<>>,
   evaluated |-> FALSE]

\* No pure function has been called on its own.
NoCalc == [fn |-> "none", args |-> <<>>, result |-> <<>>]

\* No program has started a thread: quote_lock is free. prog is the program
\* that runs in the process, pc the position of its runner thread (the
\* thread inside client.run) and of its main thread, pending the trade the
\* runner is handling, processed the symbols test_spread_calc has printed and
\* returned the calls of get_spread_ratio that have returned.
NoLocks ==
  [prog |-> "none", quote_lock |-> "free",
   pc |-> [runner |-> "idle", main |-> "idle"],
   pending |-> <<>>, processed |-> {}, returned |-> 0]

\* The module's globals right after import, with the wall clock at minute m.
Cold(m) ==
  [now |-> m,
   minute_aggregates |-> EmptyMap, latest_quotes |-> EmptyMap,
   momentum_flags |-> EmptyMap, watch_alerts |-> <<>>,
   breakout_quality |-> EmptyMap, rolling_volume_3min |-> EmptyMap,
   alert_tracker |-> EmptyMap, price_history |-> EmptyMap,
   sent |-> <<>>, ev |-> NoEval,
   hist |-> [events |-> 0, last_ts |-> EmptyMap, disordered |-> {},
             shifts |-> EmptyMap, crossings |-> EmptyMap,
             first_price |-> EmptyMap, op |-> "none", sink |-> "ok",
             batch |-> [msgs |-> <<>>, log |-> <<>>, raised |-> FALSE]],
   threads |-> NoThreads, telegram |-> NoTelegram, replay |-> NoReplay,
   calc |-> NoCalc, locks |-> NoLocks]

\* The events of the environment, as values.
\* sink is what the sink will do with the requests made while the event is
\* processed.
TradeEvent(symbol, price, size, lag) ==
  [type |-> "trade", symbol |-> symbol, price |-> price, size |-> size,
   lag |-> lag, d |-> 0, bid |-> 0, ask |-> 0, sink |-> "ok"]
TradeEventWithSink(symbol, price, size, lag, sink) ==
  [TradeEvent(symbol, price, size, lag) EXCEPT !.sink = sink]
TickEvent(d) ==
  [type |-> "tick", symbol |-> "", price |-> 0, size |-> 0,
   lag |-> 0, d |-> d, bid |-> 0, ask |-> 0, sink |-> "ok"]
QuoteEvent(symbol, bid, ask) ==
  [type |-> "quote", symbol |-> symbol, price |-> 0, size |-> 0,
   lag |-> 0, d |-> 0, bid |-> bid, ask |-> ask, sink |-> "ok"]

\* The state after the program has processed one event.
Step(W0, e) == The({
  IF e.type = "tick"
  THEN [W EXCEPT !.now = @ + e.d, !.hist.events = @ + 1, !.hist.op = "tick"]
  ELSE IF e.type = "quote"
  THEN [handle_quote(W, e.symbol, e.bid, e.ask)
          EXCEPT !.hist.events = @ + 1, !.hist.op = "quote"]
  ELSE The({
       LET timestamp == W.now - e.lag
           seen == e.symbol \in DOMAIN W.hist.last_ts
       IN [st EXCEPT
             !.hist.events = @ + 1,
             !.hist.op = "trade",
             !.hist.sink = "ok",
             !.hist.disordered =
                IF seen /\ timestamp < W.hist.last_ts[e.symbol]
                THEN @ \cup {e.symbol} ELSE @,
             !.hist.last_ts =
                Put(@, e.symbol,
                    IF seen THEN Max(timestamp, W.hist.last_ts[e.symbol])
                    ELSE timestamp),
             !.hist.shifts =
                Put(@, e.symbol, Get(W.hist.shifts, e.symbol, 0)
                                   + (IF st.ev.shifted THEN 1 ELSE 0)),
             !.hist.crossings =
                Put(@, e.symbol, Get(W.hist.crossings, e.symbol, 0)
                                   + (IF seen /\ timestamp > W.hist.last_ts[e.symbol]
                                      THEN 1 ELSE 0)),
             !.hist.first_price =
                IF <<timestamp, e.symbol>> \in DOMAIN @ THEN @
                ELSE Put(@, <<timestamp, e.symbol>>, e.price)]
       : st \in {handle_trade([W EXCEPT !.hist.sink = e.sink], W.now,
                              e.symbol, e.price, e.size, W.now - e.lag)}})
  : W \in {W0}})

RECURSIVE Run(_, _)
Run(W, events) ==
  IF events = <<>> THEN W
  ELSE The({Run(W1, Tail(events)) : W1 \in {Step(W, Head(events))}})

\* Runs of the program that the initial states stand for, each from the cold
\* state at a start minute (09:25, before the regular session opens, or 19:55,
\* before the post-market closes): nothing yet; three trades that set a flag;
\* one trade delivered after its minute has ended.
Prefixes ==
  { <<>>,
    <<TradeEvent("AAA", 1000, 40000, 0), TradeEvent("AAA", 1040, 100, 0),
      TradeEvent("AAA", 1040, 100, 0)>>,
    <<TickEvent(1), TradeEvent("AAA", 1000, 100, 1)>> }

World ==
  [now |-> now, minute_aggregates |-> minute_aggregates,
   latest_quotes |-> latest_quotes, momentum_flags |-> momentum_flags,
   watch_alerts |-> watch_alerts, breakout_quality |-> breakout_quality,
   rolling_volume_3min |-> rolling_volume_3min,
   alert_tracker |-> alert_tracker, price_history |-> price_history,
   sent |-> sent, ev |-> ev, hist |-> hist, threads |-> threads,
   telegram |-> telegram, replay |-> replay, calc |-> calc,
   locks |-> locks]

IsWorld(W) ==
  /\ now = W.now
  /\ minute_aggregates = W.minute_aggregates
  /\ latest_quotes = W.latest_quotes
  /\ momentum_flags = W.momentum_flags
  /\ watch_alerts = W.watch_alerts
  /\ breakout_quality = W.breakout_quality
  /\ rolling_volume_3min = W.rolling_volume_3min
  /\ alert_tracker = W.alert_tracker
  /\ price_history = W.price_history
  /\ sent = W.sent
  /\ ev = W.ev
  /\ hist = W.hist
  /\ threads = W.threads
  /\ telegram = W.telegram
  /\ replay = W.replay
  /\ calc = W.calc
  /\ locks = W.locks

\* The program state is the one the prefix has produced; the counters of the
\* history (events, shifts, crossings) count from the initial state on.
Init ==
  \E m \in StartMinutes, prefix \in Prefixes :
    \E W \in {[Run(Cold(m), prefix) EXCEPT !.hist.events = 0,
                                            !.hist.shifts = EmptyMap,
                                            !.hist.crossings = EmptyMap]} :
      IsWorld(W)

Install(W) ==
  /\ now' = W.now
  /\ minute_aggregates' = W.minute_aggregates
  /\ latest_quotes' = W.latest_quotes
  /\ momentum_flags' = W.momentum_flags
  /\ watch_alerts' = W.watch_alerts
  /\ breakout_quality' = W.breakout_quality
  /\ rolling_volume_3min' = W.rolling_volume_3min
  /\ alert_tracker' = W.alert_tracker
  /\ price_history' = W.price_history
  /\ sent' = W.sent
  /\ ev' = W.ev
  /\ hist' = W.hist
  /\ threads' = W.threads
  /\ telegram' = W.telegram
  /\ replay' = W.replay
  /\ calc' = W.calc
  /\ locks' = W.locks

\* The wall clock moves on by d minutes.
Tick(d) ==
  /\ hist.events < MaxEvents
  /\ \E W \in {Step(World, TickEvent(d))} : Install(W)

\* handle_msg receives a trade stamped lag minutes before the wall clock. What
\* the sink does matters only when the evaluation makes a request.
HandleTrade(symbol, price, size, lag) ==
  /\ hist.events < MaxEvents
  /\ \E Wok \in {Step(World, TradeEvent(symbol, price, size, lag))} :
       \/ Install(Wok)
       \/ /\ Wok.ev.alerts # <<>>
          /\ \E sink \in SinkOutcomes \ {"ok"} :
               \E W \in {Step(World, TradeEventWithSink(symbol, price, size,
                                                        lag, sink))} :
                 Install(W)

\* handle_msg receives a quote.
HandleQuote(symbol, bid, ask) ==
  /\ hist.events < MaxEvents
  /\ \E W \in {Step(World, QuoteEvent(symbol, bid, ask))} : Install(W)

Next ==
  \/ \E d \in Advances : Tick(d)
  \/ \E s \in Symbols, p \in Prices, z \in Sizes, lag \in Lags :
       HandleTrade(s, p, z, lag)
  \/ \E s \in Symbols, q \in QuoteInputs : HandleQuote(s, q[1], q[2])

Spec == Init /\ [][Next]_vars

----------------------------------------------------------------------------
(* A flagged symbol that keeps trading through the day *)

\* The trades of a flagged symbol: <<minutes since the trade before, price>>,
\* below the setup price, at the setup price or 3 % above it.
FlagTrades == {<<15, 1000>>, <<15, 1040>>, <<15, 1072>>}

Flagged(symbol) == symbol \in DOMAIN momentum_flags

\* The next trade of a flagged symbol arrives while a session is still open.
TradeKeepsArriving(symbol, d, price) ==
  /\ Flagged(symbol)
  /\ SessionOf(now + d) # "CLOSED"
  /\ \E W1 \in {Step(World, TickEvent(d))} :
       \E W \in {Step(W1, TradeEvent(symbol, price, 100, 0))} : Install(W)

FlagNext == \E s \in Symbols, t \in FlagTrades : TradeKeepsArriving(s, t[1], t[2])

\* The step of TradeKeepsArriving as the wall clock shows it: every step of
\* FlagNext is one, and no other step of FlagNext moves the clock.
NextTradeArrives ==
  /\ \E s \in Symbols : Flagged(s)
  /\ \E t \in FlagTrades : SessionOf(now + t[1]) # "CLOSED" /\ now' = now + t[1]

\* In-session trades of a flagged symbol keep arriving: the feed delivers the
\* next trade as long as a session is open.
FlagSpec == Init /\ [][FlagNext]_vars /\ WF_now(NextTradeArrives)

----------------------------------------------------------------------------
(* Batches of messages, some of them malformed (handle_msg, lines 962-1032) *)

\* The tickers read from the ticker file (line 1092).
target_tickers == Symbols

\* A message of the feed: absent names the attributes the object does not
\* have; a size of NoneVal is the attribute size holding None.
TradeMsg(symbol, price, size, lag, absent) ==
  [type |-> "trade", symbol |-> symbol, price |-> price, size |-> size,
   lag |-> lag, bid |-> 0, ask |-> 0, absent |-> absent]
QuoteMsg(symbol, bid, ask) ==
  [type |-> "quote", symbol |-> symbol, price |-> 0, size |-> 0,
   lag |-> 0, bid |-> bid, ask |-> ask, absent |-> {}]

\* What update_aggregates has written to the bar when adding a size of None
\* to the volume raises TypeError (lines 937-948).
FoldPricesOnly(agg, price) ==
  [agg EXCEPT !.open = IF @ = NoneVal THEN price ELSE @,
              !.close = price,
              !.high = IF @ = NoneVal \/ price > @ THEN price ELSE @,
              !.low = IF @ = NoneVal \/ price < @ THEN price ELSE @]

\* The globals of the module, without the clock and the history of the feed.
ProgramState(W) ==
  <<W.minute_aggregates, W.latest_quotes, W.momentum_flags, W.watch_alerts,
    W.breakout_quality, W.rolling_volume_3min, W.alert_tracker,
    W.price_history, W.sent>>

\* The body of the loop for one message (lines 969-1027): the state it
\* leaves and the exception it ends with, if any.
process_msg(W, msg) ==
  IF msg.type = "quote"
  THEN [W |-> Step(W, QuoteEvent(msg.symbol, msg.bid, msg.ask)),
        outcome |-> "ok", exc |-> FALSE]
  ELSE IF "symbol" \in msg.absent \/ "price" \in msg.absent
  THEN [W |-> W, outcome |-> "skipped", exc |-> FALSE]
  ELSE IF msg.symbol \notin target_tickers
  THEN [W |-> W, outcome |-> "skipped", exc |-> FALSE]
  ELSE IF "size" \in msg.absent \/ "timestamp" \in msg.absent
  THEN [W |-> W, outcome |-> "AttributeError", exc |-> TRUE]
  ELSE IF msg.size = NoneVal
  THEN [W |-> [W EXCEPT
                 !.price_history =
                    update_price_history(@, msg.symbol, W.now, msg.price,
                                         msg.size),
                 !.minute_aggregates =
                    Put(@, <<W.now - msg.lag, msg.symbol>>,
                        FoldPricesOnly(Get(@, <<W.now - msg.lag, msg.symbol>>,
                                           NewBar), msg.price))],
        outcome |-> "TypeError", exc |-> TRUE]
  ELSE [W |-> Step(W, TradeEvent(msg.symbol, msg.price, msg.size, msg.lag)),
        outcome |-> "ok", exc |-> FALSE]

\* A faulty loop without the handler: an exception leaves handle_msg.
ExceptionEscapesAlways(exc) == exc

\* except Exception (line 1029) handles whatever the body raises.
ExceptionEscapes(exc) == FALSE

\* handle_msg(msgs): the loop over the batch; log records, message by
\* message, how the body ended and whether it changed the globals.
RECURSIVE handle_msg(_, _, _)
handle_msg(W, msgs, log) ==
  IF msgs = <<>> THEN [W |-> W, log |-> log, raised |-> FALSE]
  ELSE The({
       IF ExceptionEscapes(r.exc)
       THEN [W |-> r.W, raised |-> TRUE,
             log |-> Append(log, [outcome |-> r.outcome,
                                  changed |-> ProgramState(r.W) # ProgramState(W)])]
       ELSE handle_msg(r.W, Tail(msgs),
                       Append(log, [outcome |-> r.outcome,
                                    changed |-> ProgramState(r.W) # ProgramState(W)]))
       : r \in {process_msg(W, Head(msgs))}})

\* The state after one call of handle_msg with a batch.
StepBatch(W0, msgs) == The({
  [r.W EXCEPT !.hist.events = W0.hist.events + 1,
              !.hist.op = "batch",
              !.hist.batch = [msgs |-> msgs, log |-> r.log, raised |-> r.raised]]
  : r \in {handle_msg(W0, msgs, <<>>)}})

\* The batches the feed delivers: well-formed trades and quotes, and trades
\* without a price, a symbol, a size or a timestamp, or with a size of None.
Batches ==
  { <<TradeMsg("AAA", 1000, 40000, 0, {})>>,
    <<TradeMsg("AAA", 1040, 100, 0, {"price"}), TradeMsg("AAA", 1040, 100, 0, {})>>,
    <<TradeMsg("AAA", 1040, 100, 0, {"size"}), TradeMsg("AAA", 1000, 100, 0, {"symbol"}),
      TradeMsg("AAA", 1040, 100, 0, {})>>,
    <<TradeMsg("AAA", 1093, NoneVal, 0, {}), TradeMsg("AAA", 1040, 100, 1, {})>>,
    <<QuoteMsg("AAA", 1000, 1025), TradeMsg("AAA", 1000, 100, 0, {"timestamp"})>> }

\* handle_msg receives a batch.
HandleMsg(msgs) ==
  /\ hist.events < MaxEvents
  /\ \E W \in {StepBatch(World, msgs)} : Install(W)

BatchNext ==
  \/ \E d \in Advances : Tick(d)
  \/ \E msgs \in Batches : HandleMsg(msgs)

BatchSpec == Init /\ [][BatchNext]_vars

----------------------------------------------------------------------------
(* Threads: main and run_session, and the ingest threads they start        *)
(* (lines 1034-1113). A step of a thread is one call that reads and writes  *)
(* the globals; a critical section is one step.                             *)

MaxSessions == 2

\* The messages an ingest thread receives from the feed.
ThreadMessages ==
  { TradeEvent("AAA", 1000, 40000, 0), TradeEvent("AAA", 1040, 100, 0),
    QuoteEvent("AAA", 1000, 1025) }

\* is_active_trading_session (lines 130-132), every day being a weekday.
is_active_trading_session(m) == SessionOf(m) # "CLOSED"

\* The date of a minute, which names the snapshot file (lines 226, 248).
Day(m) == m \div 1440

\* The lock that is to guard each shared structure.
GuardedBy ==
  [minute_aggregates |-> "data_lock", rolling_volume_3min |-> "data_lock",
   momentum_flags |-> "data_lock", alert_tracker |-> "data_lock",
   price_history |-> "data_lock", latest_quotes |-> "quote_lock"]

\* The guarded structures a step has written.
Touched(W0, W1) == {n \in DOMAIN GuardedBy : W0[n] # W1[n]}

\* The thread run_session starts (lines 1056-1065), waiting in client.run.
NewThread ==
  [alive |-> TRUE, ws_running |-> TRUE, pc |-> "recv", e |-> TickEvent(0),
   ts |-> 0,
   r |-> [minute_ts |-> 0, volume |-> 0, pct_change |-> 0, open |-> 0,
          close |-> 0, count |-> 0, vwap |-> 0],
   returned |-> FALSE, after_return |-> 0]

\* What a step of thread k leaves in the record of accesses.
Accessed(W0, W1, thread, k, holding) ==
  [W1 EXCEPT !.threads.access =
               IF Touched(W0, W1) = {} THEN NoAccess
               ELSE [thread |-> thread, k |-> k, touched |-> Touched(W0, W1),
                     holding |-> holding],
             !.hist.op = "thread"]

\* A bar key is <<minute, symbol>> when its datetime carries the Eastern
\* time zone, as get_minute_ts makes it, and <<minute, symbol, "naive">> when
\* it carries none. The file's keys are the strings strftime makes of either,
\* written here <<minute, symbol>>.
IsNaive(key) == Len(key) = 3

\* The content save_previous_minute writes (lines 229-235): the entry of a
\* minute string is started afresh for every key that formats to it, so that
\* of two keys of one minute the one inserted later, the zoned one, stays.
SavedBars(aggs) ==
  LET zoned == {k[1] : k \in {x \in DOMAIN aggs : ~IsNaive(x)}}
      kept == {x \in DOMAIN aggs : ~IsNaive(x) \/ x[1] \notin zoned}
  IN [f \in {<<k[1], k[2]>> : k \in kept} |->
        IF f \in DOMAIN aggs THEN aggs[f] ELSE aggs[<<f[1], f[2], "naive">>]]

\* The bars load_previous_minute builds from the file's content (lines
\* 260-263): strptime gives every key a datetime without time zone.
LoadedBars(bars) ==
  [k \in {<<f[1], f[2], "naive">> : f \in DOMAIN bars} |-> bars[<<k[1], k[2]>>]]

\* A faulty load that empties the bars before it decodes the file.
BarsClearedBeforeDecode(aggs) == EmptyMap

\* The bars in memory when json.load has raised JSONDecodeError: the file is
\* decoded (lines 254-255) before the bars are cleared (line 259).
BarsAfterFailedDecode(aggs) == aggs

\* save_previous_minute (lines 223-244), that writes today's file anew.
save_previous_minute(W) ==
  [W EXCEPT !.threads.file = [@ EXCEPT !.day = Day(W.now),
                                       !.bars = SavedBars(W.minute_aggregates),
                                       !.memory = W.minute_aggregates,
                                       !.corrupt = FALSE]]

\* load_previous_minute (lines 246-277): no file of today; a file that does
\* not decode, which is renamed; a file that decodes.
load_previous_minute(W) ==
  IF W.threads.file.day # Day(W.now)
  THEN [W EXCEPT !.threads.file.loaded = FALSE]
  ELSE IF W.threads.file.corrupt
  THEN [W EXCEPT !.minute_aggregates = BarsAfterFailedDecode(@),
                 !.threads.file = [@ EXCEPT !.day = NoneVal,
                                            !.renamed = Day(W.now),
                                            !.loaded = FALSE]]
  ELSE [W EXCEPT !.minute_aggregates = LoadedBars(W.threads.file.bars),
                 !.threads.file.loaded = TRUE]

\* run_session up to the start of the ingest thread (lines 1034-1066):
\* load_previous_minute replaces the bars by those of today's file, and the
\* tracker is cleared, each under the data lock.
run_session_start(W) ==
  Accessed(W,
    [load_previous_minute(W)
       EXCEPT !.alert_tracker = EmptyMap,
              !.threads.ws = Append(@, NewThread),
              !.threads.main = "monitor"],
    "main", 0, {"data_lock"})

\* run_session after its monitor loop (lines 1068-1077): the flag of the
\* session is reset and the bars are saved under the data lock; nothing is
\* said to the client or to the ingest thread.
run_session_end(W) ==
  Accessed(W,
    [save_previous_minute(W)
       EXCEPT !.threads.ws[Len(W.threads.ws)].ws_running = FALSE,
              !.threads.ws[Len(W.threads.ws)].returned = TRUE,
              !.threads.main = "loop"],
    "main", 0, {"data_lock"})

\* client.run hands a message to handle_msg in thread k.
receive(W, k, e) ==
  [W EXCEPT !.threads.ws[k].pc = IF e.type = "quote" THEN "quote" ELSE "history",
            !.threads.ws[k].e = e,
            !.threads.ws[k].ts = W.now - e.lag,
            !.threads.ws[k].after_return =
               IF W.threads.ws[k].returned THEN @ + 1 ELSE @,
            !.threads.access = NoAccess,
            !.hist.events = @ + 1,
            !.hist.op = "thread"]

\* The quote branch of handle_msg (lines 977-991), under the quote lock.
ingest_quote(W, k) ==
  Accessed(W,
    [handle_quote(W, W.threads.ws[k].e.symbol, W.threads.ws[k].e.bid,
                  W.threads.ws[k].e.ask)
       EXCEPT !.threads.ws[k].pc = "recv"],
    "ingest", k, {"quote_lock"})

\* update_price_history as handle_msg calls it (line 1006): no lock.
ingest_history(W, k) ==
  Accessed(W,
    [W EXCEPT !.price_history =
                 update_price_history(@, W.threads.ws[k].e.symbol, W.now,
                                      W.threads.ws[k].e.price,
                                      W.threads.ws[k].e.size),
              !.threads.ws[k].pc = "aggregates"],
    "ingest", k, {})

\* update_aggregates (line 1009), which takes the data lock (line 934).
ingest_aggregates(W, k) == The({
  Accessed(W,
    [W EXCEPT !.minute_aggregates = r.aggs,
              !.threads.ws[k].r =
                 [minute_ts |-> r.minute_ts, volume |-> r.volume,
                  pct_change |-> r.pct_change, open |-> r.open,
                  close |-> r.close, count |-> r.count, vwap |-> r.vwap],
              !.threads.ws[k].pc = "rolling"],
    "ingest", k, {"data_lock"})
  : r \in {update_aggregates(W.minute_aggregates, W.threads.ws[k].e.symbol,
                             W.threads.ws[k].e.price, W.threads.ws[k].e.size,
                             W.threads.ws[k].ts)}})

\* The shift of the rolling window (lines 1020-1024): no lock.
ingest_rolling(W, k) ==
  Accessed(W,
    [W EXCEPT !.rolling_volume_3min =
                 IF ShiftDue(W.threads.ws[k].r.minute_ts, W.now)
                 THEN update_rolling_volume(@, W.threads.ws[k].e.symbol,
                                            W.threads.ws[k].r.volume)
                 ELSE @,
              !.threads.ws[k].pc = "spike"],
    "ingest", k, {})

\* check_spike as handle_msg calls it (line 1027): no lock.
ingest_spike(W, k) == The({
  Accessed(W,
    [check_spike(W, W.now, t.e.symbol, t.r.pct_change, t.r.volume,
                 t.r.minute_ts, t.r.open, t.r.close, t.r.count, t.r.vwap)
       EXCEPT !.threads.ws[k].pc = "recv"],
    "ingest", k, {})
  : t \in {W.threads.ws[k]}})

\* client.run raises in thread k (lines 1059-1062): the thread ends.
ws_error(W, k) ==
  [W EXCEPT !.threads.ws[k].alive = FALSE,
            !.threads.ws[k].ws_running = FALSE,
            !.threads.access = NoAccess,
            !.hist.op = "thread"]

\* main finds a session active and calls run_session.
RunSessionStart ==
  /\ threads.main = "loop"
  /\ is_active_trading_session(now)
  /\ Len(threads.ws) < MaxSessions
  /\ \E W \in {run_session_start(World)} : Install(W)

\* The monitor loop ends: the session is over or the thread has reported an
\* error.
RunSessionEnd ==
  /\ threads.main = "monitor"
  /\ ~is_active_trading_session(now) \/ ~threads.ws[Len(threads.ws)].ws_running
  /\ \E W \in {run_session_end(World)} : Install(W)

Receive(k, e) ==
  /\ k <= Len(threads.ws)
  /\ hist.events < MaxEvents
  /\ threads.ws[k].alive /\ threads.ws[k].pc = "recv"
  /\ \E W \in {receive(World, k, e)} : Install(W)

UpdateQuote(k) ==
  /\ k <= Len(threads.ws)
  /\ threads.ws[k].pc = "quote"
  /\ \E W \in {ingest_quote(World, k)} : Install(W)

UpdatePriceHistory(k) ==
  /\ k <= Len(threads.ws)
  /\ threads.ws[k].pc = "history"
  /\ \E W \in {ingest_history(World, k)} : Install(W)

UpdateAggregates(k) ==
  /\ k <= Len(threads.ws)
  /\ threads.ws[k].pc = "aggregates"
  /\ \E W \in {ingest_aggregates(World, k)} : Install(W)

UpdateRollingVolume(k) ==
  /\ k <= Len(threads.ws)
  /\ threads.ws[k].pc = "rolling"
  /\ \E W \in {ingest_rolling(World, k)} : Install(W)

CheckSpike(k) ==
  /\ k <= Len(threads.ws)
  /\ threads.ws[k].pc = "spike"
  /\ \E W \in {ingest_spike(World, k)} : Install(W)

WsError(k) ==
  /\ k <= Len(threads.ws)
  /\ threads.ws[k].alive /\ threads.ws[k].pc = "recv"
  /\ \E W \in {ws_error(World, k)} : Install(W)

\* Between two sessions the file of the day is damaged on disk (a write cut
\* short, a disk error): it no longer decodes as JSON.
FileDamaged ==
  /\ threads.main = "loop"
  /\ threads.file.day # NoneVal
  /\ ~threads.file.corrupt
  /\ \E W \in {[World EXCEPT !.threads.file.corrupt = TRUE,
                             !.hist.op = "file"]} : Install(W)

\* The night passes while main sleeps: it is 04:00 of the next day.
Overnight ==
  /\ hist.events < MaxEvents
  /\ threads.main = "loop"
  /\ ~is_active_trading_session(now)
  /\ \E W \in {[World EXCEPT !.now = (Day(now) + 1) * 1440 + 240,
                             !.hist.events = @ + 1,
                             !.hist.op = "tick"]} : Install(W)

ThreadNext ==
  \/ RunSessionStart
  \/ RunSessionEnd
  \/ Overnight
  \/ \E d \in Advances : Tick(d)
  \/ \E k \in 1..MaxSessions, e \in ThreadMessages : Receive(k, e)
  \/ \E k \in 1..MaxSessions : UpdateQuote(k)
  \/ \E k \in 1..MaxSessions : UpdatePriceHistory(k)
  \/ \E k \in 1..MaxSessions : UpdateAggregates(k)
  \/ \E k \in 1..MaxSessions : UpdateRollingVolume(k)
  \/ \E k \in 1..MaxSessions : CheckSpike(k)
  \/ \E k \in 1..MaxSessions : WsError(k)

ThreadSpec == Init /\ [][ThreadNext]_vars

\* The sessions and the snapshot file: main starts and ends sessions, the
\* ingest thread of the running session handles whole trade messages or
\* fails, and the file may be damaged between sessions.
MaxSnapshotEvents == 2

SessionTrade(symbol, price, size) ==
  /\ threads.main = "monitor"
  /\ threads.ws[Len(threads.ws)].alive
  /\ hist.events < MaxSnapshotEvents
  /\ \E W \in {Step(World, TradeEvent(symbol, price, size, 0))} : Install(W)

SessionError ==
  /\ threads.main = "monitor"
  /\ WsError(Len(threads.ws))

SessionTick(d) ==
  /\ hist.events < MaxSnapshotEvents
  /\ Tick(d)

NightAfterSession ==
  /\ hist.events < MaxSnapshotEvents
  /\ Overnight

SnapshotNext ==
  \/ RunSessionStart
  \/ RunSessionEnd
  \/ FileDamaged
  \/ NightAfterSession
  \/ \E d \in Advances : SessionTick(d)
  \/ \E s \in Symbols, p \in Prices, z \in Sizes : SessionTrade(s, p, z)
  \/ SessionError

SnapshotSpec == Init /\ [][SnapshotNext]_vars

----------------------------------------------------------------------------
(* The Telegram queue and its worker (polygon_websocket_backup.py,          *)
(* lines 57-59, 110-244). Messages are numbered in the order in which       *)
(* queue_telegram_message is called.                                        *)

\* The capacity of telegram_queue in the model (maxsize, line 57).
QueueMax == 2
MaxMessages == 4
MaxWorkers == 2

\* The state after a step of the queue's threads.
TelegramStep(W, t) == [W EXCEPT !.telegram = t, !.hist.op = "telegram"]

\* queue_telegram_message up to the return or to the handler of queue.Full
\* (lines 215-229).
queue_put(t) ==
  IF Len(t.queue) < QueueMax
  THEN [t EXCEPT !.queue = Append(@, t.next), !.next = @ + 1,
                 !.call = [msg |-> t.next, found_full |-> FALSE, done |-> TRUE,
                           returned |-> TRUE]]
  ELSE [t EXCEPT !.caller = [pc |-> "full", msg |-> t.next], !.next = @ + 1,
                 !.call = [msg |-> t.next, found_full |-> TRUE, done |-> FALSE,
                           returned |-> FALSE]]

\* get_nowait in the handler (line 234): it removes the oldest message, or
\* raises queue.Empty, which the bare except turns into return False
\* (lines 238-239).
queue_drop_oldest(t) ==
  IF t.queue = <<>>
  THEN [t EXCEPT !.caller = [pc |-> "idle", msg |-> 0],
                 !.call.done = TRUE, !.call.returned = FALSE]
  ELSE [t EXCEPT !.queue = Tail(@), !.caller.pc = "removed"]

\* put_nowait in the handler (lines 235-239).
queue_put_after_drop(t) ==
  IF Len(t.queue) < QueueMax
  THEN [t EXCEPT !.queue = Append(@, t.caller.msg),
                 !.caller = [pc |-> "idle", msg |-> 0],
                 !.call.done = TRUE, !.call.returned = TRUE]
  ELSE [t EXCEPT !.caller = [pc |-> "idle", msg |-> 0],
                 !.call.done = TRUE, !.call.returned = FALSE]

\* The worker tests telegram_worker_running (line 116).
worker_loop(t, w) ==
  IF t.running THEN [t EXCEPT !.workers[w].pc = "get"]
  ELSE [t EXCEPT !.workers[w].alive = FALSE]

\* telegram_queue.get(timeout=1.0) (lines 119, 145-147).
worker_get(t, w) ==
  IF t.queue = <<>> THEN [t EXCEPT !.workers[w].pc = "loop"]
  ELSE [t EXCEPT !.queue = Tail(@), !.workers[w].msg = Head(t.queue),
                 !.workers[w].pc = "post"]

\* requests.post of the message taken (lines 123-143).
worker_post(t, w) ==
  [t EXCEPT !.posted = Append(@, t.workers[w].msg),
            !.workers[w].msg = 0, !.workers[w].pc = "loop"]

\* start_telegram_worker (lines 154-175): a running worker is told to stop
\* and the caller sleeps; otherwise the flag is set and a thread started.
start_telegram_worker(t) ==
  IF t.starter = "idle" /\ t.running
  THEN [t EXCEPT !.running = FALSE, !.thread = 0, !.starter = "sleeping"]
  ELSE [t EXCEPT !.running = TRUE, !.starter = "idle",
                 !.thread = Len(t.workers) + 1,
                 !.workers = Append(@, [alive |-> TRUE, pc |-> "loop",
                                        msg |-> 0])]

\* stop_telegram_worker (lines 208-213).
stop_telegram_worker(t) == [t EXCEPT !.running = FALSE, !.thread = 0]

\* check_telegram_worker_health (lines 177-206): nothing when the worker is
\* not meant to run or the thread referred to is alive; otherwise the worker
\* is started again. thread is telegram_worker_thread, 0 for None.
check_telegram_worker_health(t) ==
  IF ~t.running THEN t
  ELSE IF t.thread # 0 /\ t.workers[t.thread].alive THEN t
  ELSE start_telegram_worker(t)

QueueTelegramMessage ==
  /\ telegram.caller.pc = "idle"
  /\ telegram.next <= MaxMessages
  /\ \E W \in {TelegramStep(World, queue_put(telegram))} : Install(W)

DropOldest ==
  /\ telegram.caller.pc = "full"
  /\ \E W \in {TelegramStep(World, queue_drop_oldest(telegram))} : Install(W)

PutAfterDrop ==
  /\ telegram.caller.pc = "removed"
  /\ \E W \in {TelegramStep(World, queue_put_after_drop(telegram))} : Install(W)

WorkerLoop(w) ==
  /\ w <= Len(telegram.workers)
  /\ telegram.workers[w].alive /\ telegram.workers[w].pc = "loop"
  /\ \E W \in {TelegramStep(World, worker_loop(telegram, w))} : Install(W)

WorkerGet(w) ==
  /\ w <= Len(telegram.workers)
  /\ telegram.workers[w].pc = "get"
  /\ \E W \in {TelegramStep(World, worker_get(telegram, w))} : Install(W)

WorkerPost(w) ==
  /\ w <= Len(telegram.workers)
  /\ telegram.workers[w].pc = "post"
  /\ \E W \in {TelegramStep(World, worker_post(telegram, w))} : Install(W)

\* The session monitor starts the worker (line 716) or restarts it.
StartTelegramWorker ==
  /\ telegram.starter = "idle"
  /\ Len(telegram.workers) < MaxWorkers
  /\ \E W \in {TelegramStep(World, start_telegram_worker(telegram))} : Install(W)

\* start_telegram_worker after its sleep (lines 161-165).
StartAfterSleep ==
  /\ telegram.starter = "sleeping"
  /\ \E W \in {TelegramStep(World, start_telegram_worker(telegram))} : Install(W)

\* The session monitor stops the worker at the end of a session (line 765).
StopTelegramWorker ==
  /\ telegram.starter = "idle"
  /\ telegram.running
  /\ \E W \in {TelegramStep(World, stop_telegram_worker(telegram))} : Install(W)

\* The session monitor checks the worker (lines 739, 750).
CheckTelegramWorkerHealth ==
  /\ telegram.starter = "idle"
  /\ \E W \in {TelegramStep(World, check_telegram_worker_health(telegram))} :
       Install(W)

QueueNext ==
  \/ QueueTelegramMessage
  \/ DropOldest
  \/ PutAfterDrop
  \/ \E w \in 1..MaxWorkers : WorkerLoop(w)
  \/ \E w \in 1..MaxWorkers : WorkerGet(w)
  \/ \E w \in 1..MaxWorkers : WorkerPost(w)
  \/ StartTelegramWorker
  \/ StartAfterSleep
  \/ StopTelegramWorker
  \/ CheckTelegramWorkerHealth

QueueSpec == Init /\ [][QueueNext]_vars

----------------------------------------------------------------------------
(* Replay drivers: backtest/backtest_flatfiles.py, backtest/backtest_momentum.py *)
(* and backtest/backtest_runner.py feed minute bars to check_spike.          *)
(* A driver runs in a process of its own, from the module's cold globals.    *)

MaxBars == 3
MaxRuns == 2

\* Minute bars of the input files: quiet minute, +5.0 %, +3.8 %. gap is the
\* number of minutes without a bar between a bar and the one before it, as
\* the bars' timestamps give it.
BarInputs ==
  { [open |-> 1000, close |-> 1000, high |-> 1000, low |-> 1000,
     volume |-> 10000, vwap |-> 1000, transactions |-> 50, gap |-> 0],
    [open |-> 1000, close |-> 1050, high |-> 1050, low |-> 1000,
     volume |-> 70000, vwap |-> 1050, transactions |-> 150, gap |-> 0],
    [open |-> 1050, close |-> 1090, high |-> 1090, low |-> 1050,
     volume |-> 80000, vwap |-> 1090, transactions |-> 150, gap |-> 0] }

BarLists == UNION {[1..n -> BarInputs] : n \in 1..MaxBars}

\* Bars of a file whose symbol does not trade in every minute: a quiet bar
\* five minutes after the bar before it, a +5.0 % bar on heavier volume and
\* a +9.0 % bar.
SparseBarInputs ==
  BarInputs \cup
  { [open |-> 1000, close |-> 1000, high |-> 1000, low |-> 1000,
     volume |-> 10000, vwap |-> 1000, transactions |-> 50, gap |-> 5],
    [open |-> 1000, close |-> 1050, high |-> 1050, low |-> 1000,
     volume |-> 90000, vwap |-> 1050, transactions |-> 150, gap |-> 0],
    [open |-> 1000, close |-> 1090, high |-> 1090, low |-> 1000,
     volume |-> 90000, vwap |-> 1060, transactions |-> 150, gap |-> 0] }

SparseBarLists == UNION {[1..n -> SparseBarInputs] : n \in 1..(MaxBars + 1)}

\* The minute of bar number k (bar['timestamp'], line 361).
BarMinute(start, bars, k) ==
  start + k - 1 + SumOver(1..k, [j \in 1..k |-> bars[j].gap])

\* ((close - open) / open) * 100 if open > 0 else 0
BarPct(bar) ==
  IF bar.open > 0 THEN ((bar.close - bar.open) * 100000) \div bar.open ELSE 0

\* The mock quote of the drivers: bid = close * 0.999, ask = close * 1.001,
\* in hundredths of a cent.
MockQuote(bar) ==
  [bid |-> (bar.close * 999) \div 10, ask |-> (bar.close * 1001) \div 10]

\* backtest_flatfiles.backtest_symbol, "Clear state for this symbol"
\* (lines 347-355). minute_aggregates is keyed by minute, so that the symbol
\* is never one of its keys and no bar is deleted.
flatfiles_clear_state(W, symbol) ==
  [W EXCEPT
     !.momentum_flags = Pop(@, symbol),
     !.rolling_volume_3min = IF symbol \in DOMAIN @ THEN Put(@, symbol, <<>>)
                             ELSE @,
     !.latest_quotes = Pop(@, symbol)]

\* if len(window) >= 3: window.pop(0); window.append(volume)
PopAppend(rolling, symbol, volume) ==
  LET vols == Get(rolling, symbol, <<>>)
  IN Put(rolling, symbol,
         Append(IF Len(vols) >= 3 THEN Tail(vols) ELSE vols, volume))

\* The Stage 0 records the flat-file driver adds to its result: the entries
\* of watch_alerts, from index idx on, of this symbol and minute whose index
\* the call has not recorded yet (lines 409-431).
RECURSIVE capture_watch(_, _, _, _, _)
capture_watch(watch, symbol, minute_ts, processed, idx) ==
  IF idx > Len(watch) THEN <<>>
  ELSE (IF idx \notin processed /\ watch[idx].symbol = symbol
           /\ watch[idx].timestamp = minute_ts
        THEN <<[stage |-> 0, timestamp |-> minute_ts,
                quality |-> watch[idx].quality]>>
        ELSE <<>>)
       \o capture_watch(watch, symbol, minute_ts, processed, idx + 1)

\* The Stage 1 or Stage 2 record of a bar, from the flag before and after
\* check_spike (lines 433-478).
capture_stage(before, after, symbol, minute_ts) ==
  IF symbol \notin DOMAIN before /\ symbol \in DOMAIN after
  THEN <<[stage |-> 1, timestamp |-> minute_ts,
          quality |-> after[symbol].quality_score]>>
  ELSE IF symbol \in DOMAIN before /\ symbol \notin DOMAIN after
  THEN <<[stage |-> 2, timestamp |-> minute_ts,
          quality |-> before[symbol].quality_score]>>
  ELSE <<>>

\* What the replay records of a call of check_spike for bar number k: the
\* window the call reads and the volumes of the bars before bar k.
Seen(W, st, symbol, k) ==
  [st.replay EXCEPT
     !.i = k,
     !.window = Get(W.rolling_volume_3min, symbol, <<0, 0, 0>>),
     !.completed = [j \in 1..(k - 1) |-> W.replay.bars[j].volume],
     !.evaluated = TRUE]

\* One pass of the loop of backtest_flatfiles.backtest_symbol (lines 358-478).
flatfiles_bar(W0, symbol) == The({
  LET k == W.replay.i + 1
      bar == W.replay.bars[k]
      minute_ts == BarMinute(W.replay.start, W.replay.bars, k)
      W1 == [W EXCEPT
               !.minute_aggregates =
                  Put(@, <<minute_ts, symbol>>,
                      [open |-> bar.open, high |-> bar.high, low |-> bar.low,
                       close |-> bar.close, volume |-> bar.volume,
                       value |-> bar.vwap * bar.volume,
                       count |-> bar.transactions, vwap |-> bar.vwap]),
               !.rolling_volume_3min = PopAppend(@, symbol, bar.volume),
               !.latest_quotes = Put(@, symbol, MockQuote(bar))]
  IN The({
       LET watched == capture_watch(st.watch_alerts, symbol, minute_ts,
                                    W.replay.processed, 1)
           staged == capture_stage(W1.momentum_flags, st.momentum_flags,
                                   symbol, minute_ts)
       IN [st EXCEPT
             !.replay = [Seen(W1, st, symbol, k) EXCEPT
                !.alerts[W.replay.run] = @ \o watched \o staged,
                !.processed = @ \cup
                   {idx \in 1..Len(st.watch_alerts) :
                      /\ st.watch_alerts[idx].symbol = symbol
                      /\ st.watch_alerts[idx].timestamp = minute_ts}]]
       : st \in {check_spike(W1, W1.now, symbol, BarPct(bar), bar.volume,
                             minute_ts, bar.open, bar.close,
                             bar.transactions, bar.vwap)}})
  : W \in {W0}})

\* backtest_momentum.backtest_symbol before its loop (lines 176-191): the
\* globals are cleared and the window is seeded with the first three bars.
momentum_clear_state(W, symbol, bars) ==
  [W EXCEPT
     !.momentum_flags = EmptyMap,
     !.rolling_volume_3min =
        IF Len(bars) >= 3
        THEN Put(EmptyMap, symbol,
                 <<bars[1].volume, bars[2].volume, bars[3].volume>>)
        ELSE EmptyMap,
     !.minute_aggregates = EmptyMap,
     !.latest_quotes = EmptyMap]

\* One pass of the loop of backtest_momentum.backtest_symbol (lines 196-278).
\* A bar outside 04:00-20:00 is skipped; the stored bar has no vwap entry;
\* rolling_volume_3min[symbol] inserts the default window when there is none.
momentum_bar(W0, symbol) == The({
  LET k == W.replay.i + 1
      bar == W.replay.bars[k]
      minute_ts == W.replay.start + k - 1
      hour == (minute_ts % 1440) \div 60
      W1 == [W EXCEPT
               !.minute_aggregates =
                  Put(@, <<minute_ts, symbol>>,
                      [open |-> bar.open, high |-> bar.high, low |-> bar.low,
                       close |-> bar.close, volume |-> bar.volume,
                       value |-> bar.close * bar.volume,
                       count |-> bar.transactions]),
               !.rolling_volume_3min =
                  PopAppend(Put(@, symbol, Get(@, symbol, <<0, 0, 0>>)),
                            symbol, bar.volume),
               !.latest_quotes = Put(@, symbol, MockQuote(bar))]
  IN IF hour < 4 \/ hour >= 20 THEN [W EXCEPT !.replay.i = k]
     ELSE The({
       [st EXCEPT
          !.replay = [Seen(W1, st, symbol, k) EXCEPT
             !.alerts[W.replay.run] = @ \o
                (IF symbol \in DOMAIN W1.momentum_flags
                    /\ symbol \notin DOMAIN st.momentum_flags
                 THEN <<[stage |-> 2, timestamp |-> minute_ts,
                         quality |-> NoneVal]>>
                 ELSE <<>>)]]
       : st \in {check_spike(W1, W1.now, symbol, BarPct(bar), bar.volume,
                             minute_ts, bar.open, bar.close,
                             bar.transactions, bar.vwap)}})
  : W \in {W0}})

\* Scenario minutes of backtest_runner: the price moves from open towards
\* close in `transactions` equal steps.
ScenarioInputs ==
  { [open |-> 1000, close |-> 1000, high |-> 1000, low |-> 1000,
     volume |-> 10000, vwap |-> 1000, transactions |-> 2],
    [open |-> 1000, close |-> 1100, high |-> 1100, low |-> 1000,
     volume |-> 70000, vwap |-> 1100, transactions |-> 2] }

ScenarioLists == UNION {[1..n -> ScenarioInputs] : n \in 1..MaxBars}

\* START_DT of backtest_runner: 05:00 (line 46)
START_DT == 300

\* The trades of backtest_runner.simulate_minute from trade number i on
\* (lines 60-93): each is folded into the bar as update_aggregates folds it
\* and is followed by a call of check_spike.
RECURSIVE simulate_trades(_, _, _, _, _, _, _)
simulate_trades(W0, symbol, minute, minute_ts, i, current_price, remaining) ==
  IF i >= minute.transactions THEN W0
  ELSE The({
    LET trade_size == Max(1, minute.volume \div minute.transactions)
        size == IF remaining >= trade_size THEN trade_size ELSE remaining
        price_step == (minute.close - minute.open)
                        \div Max(minute.transactions, 1)
    IN The({
         simulate_trades(
           check_spike([W EXCEPT !.minute_aggregates = r.aggs], W.now, symbol,
                       r.pct_change, r.volume, minute_ts, r.open, r.close,
                       r.count, r.vwap),
           symbol, minute, minute_ts, i + 1, current_price + price_step,
           remaining - size)
         : r \in {update_aggregates(W.minute_aggregates, symbol,
                                    current_price, size, minute_ts)}})
    : W \in {W0}})

\* backtest_runner.simulate_minute (lines 49-101): the window is shifted
\* after the minute's trades.
simulate_minute(W0, symbol) == The({
  LET k == W.replay.i + 1
      minute == W.replay.bars[k]
      minute_ts == W.replay.start + k - 1
  IN The({
       [st EXCEPT
          !.rolling_volume_3min =
             update_rolling_volume(@, symbol, minute.volume),
          !.replay = Seen(W, st, symbol, k)]
       : st \in {simulate_trades(W, symbol, minute, minute_ts, 0,
                                 minute.open, minute.volume)}})
  : W \in {W0}})

\* A driver process starts from the cold globals; a second call replays the
\* bars of the first.
ReplayMayStart(driver, bars) ==
  /\ hist.op = "none"
  /\ replay.driver \in {"none", driver}
  /\ replay.run < MaxRuns
  /\ replay.i = Len(replay.bars)
  /\ replay.run > 0 => bars = replay.bars

StartReplay(W, driver, start, bars) ==
  [W EXCEPT !.replay = [@ EXCEPT !.driver = driver, !.run = @ + 1,
                                 !.start = start, !.bars = bars, !.i = 0,
                                 !.alerts = Append(@, <<>>),
                                 !.processed = {}, !.evaluated = FALSE]]

\* backtest_flatfiles.backtest_symbol is entered with the bars of a symbol.
FlatfilesBacktestSymbol(bars) ==
  /\ ReplayMayStart("flatfiles", bars)
  /\ \E s \in Symbols :
       Install(StartReplay(flatfiles_clear_state(World, s), "flatfiles",
                           now, bars))

FlatfilesBar ==
  /\ replay.driver = "flatfiles"
  /\ replay.i < Len(replay.bars)
  /\ \E s \in Symbols : \E W \in {flatfiles_bar(World, s)} : Install(W)

\* backtest_momentum.backtest_symbol is entered and has fetched the bars.
MomentumBacktestSymbol(bars) ==
  /\ ReplayMayStart("momentum", bars)
  /\ \E s \in Symbols :
       Install(StartReplay(momentum_clear_state(World, s, bars), "momentum",
                           now, bars))

MomentumBar ==
  /\ replay.driver = "momentum"
  /\ replay.i < Len(replay.bars)
  /\ \E s \in Symbols : \E W \in {momentum_bar(World, s)} : Install(W)

\* backtest_runner.run_scenario starts; it runs once in its process.
RunScenario(bars) ==
  /\ ReplayMayStart("runner", bars)
  /\ replay.run = 0
  /\ Install(StartReplay(World, "runner", START_DT, bars))

SimulateMinute ==
  /\ replay.driver = "runner"
  /\ replay.i < Len(replay.bars)
  /\ \E s \in Symbols : \E W \in {simulate_minute(World, s)} : Install(W)

ReplayNext ==
  \/ \E bars \in BarLists : FlatfilesBacktestSymbol(bars)
  \/ FlatfilesBar
  \/ \E bars \in BarLists : MomentumBacktestSymbol(bars)
  \/ MomentumBar
  \/ \E bars \in ScenarioLists : RunScenario(bars)
  \/ SimulateMinute

ReplaySpec == Init /\ [][ReplayNext]_vars

\* The flat-file backtest on the bars of a symbol that skips minutes.
FlatfilesNext ==
  \/ \E bars \in SparseBarLists : FlatfilesBacktestSymbol(bars)
  \/ FlatfilesBar

FlatfilesSpec == Init /\ [][FlatfilesNext]_vars

----------------------------------------------------------------------------
(* A test process that calls check_spike itself (tests/test_live_telegram.py) *)

\* The calls of check_spike one test makes.
MaxCalls == 3

\* The windows a test stores before a call: three minutes of 10 000, of
\* 25 000 (test_live_telegram.py lines 53, 133), or of 14 500, which makes
\* a minute of 42 000 a relative volume of 2.9.
SeededWindows ==
  {<<10000, 10000, 10000>>, <<25000, 25000, 25000>>, <<14500, 14500, 14500>>}

\* The minute of a test's first call: 08:30 (PREMARKET) or 10:00 (REGULAR).
TestMinutes == {510, 600}

\* The arguments of a call: a minute of +4.0 % on 27 000 shares, one of
\* +5.0 % on 70 000 and one on 200 000 shares, a minute that closes one cent
\* above 10.50 on 42 000 and one on 120 000 shares.
CallInputs ==
  { [open |-> 1000, close |-> 1040, pct |-> 4000, volume |-> 27000,
     transactions |-> 100, vwap |-> 1000],
    [open |-> 1000, close |-> 1050, pct |-> 5000, volume |-> 70000,
     transactions |-> 150, vwap |-> 1000],
    [open |-> 1000, close |-> 1050, pct |-> 5000, volume |-> 200000,
     transactions |-> 150, vwap |-> 1000],
    [open |-> 1050, close |-> 1051, pct |-> 95, volume |-> 42000,
     transactions |-> 150, vwap |-> 1050],
    [open |-> 1050, close |-> 1051, pct |-> 95, volume |-> 120000,
     transactions |-> 150, vwap |-> 1050] }

\* The test starts in a fresh process, clears the flags and stores the
\* window of its symbol (test_premarket_scenario, lines 46-53); its first
\* call is for the given minute.
test_setup(W, symbol, minute, window) ==
  [W EXCEPT !.now = minute,
            !.momentum_flags = EmptyMap,
            !.rolling_volume_3min = Put(@, symbol, window),
            !.replay = [NoReplay EXCEPT !.driver = "test", !.run = 1,
                                        !.start = minute, !.window = window]]

\* One call of check_spike by the test (lines 80-89), for the minute after
\* the one of its previous call; the call as made is kept in replay.bars.
test_call(W0, symbol, input) == The({
  LET minute_ts == W.replay.start + W.replay.i
      window == Get(W.rolling_volume_3min, symbol, <<0, 0, 0>>)
  IN The({
       [st EXCEPT
          !.replay.i = @ + 1,
          !.replay.bars = Append(@, input),
          !.replay.window = window,
          !.replay.completed = Append(@, window),
          !.replay.evaluated = TRUE]
       : st \in {check_spike([W EXCEPT !.now = minute_ts], minute_ts, symbol,
                             input.pct, input.volume, minute_ts, input.open,
                             input.close, input.transactions, input.vwap)}})
  : W \in {W0}})

TestSetup(minute, window) ==
  /\ World = Cold(now)
  /\ \E s \in Symbols : Install(test_setup(World, s, minute, window))

\* Between two calls the test stores another window.
TestStoresWindow(window) ==
  /\ replay.driver = "test"
  /\ replay.i \in 1..(MaxCalls - 1)
  /\ \E s \in Symbols :
       /\ Get(rolling_volume_3min, s, <<>>) # window
       /\ Install([World EXCEPT !.rolling_volume_3min = Put(@, s, window)])

TestCallsCheckSpike(input) ==
  /\ replay.driver = "test"
  /\ replay.i < MaxCalls
  /\ \E s \in Symbols : \E W \in {test_call(World, s, input)} : Install(W)

TestNext ==
  \/ \E minute \in TestMinutes, window \in SeededWindows :
       TestSetup(minute, window)
  \/ \E window \in SeededWindows : TestStoresWindow(window)
  \/ \E input \in CallInputs : TestCallsCheckSpike(input)

TestSpec == Init /\ [][TestNext]_vars

----------------------------------------------------------------------------
(* The pure functions, called on their own *)

\* The arguments of compute_quality_score: relative volume in thousandths,
\* percent in thousandths of a percent, spread in millionths. The spread is
\* unknown, crossed (negative), tight or wider than the limit; the last
\* entries are the minute of 14 % on twice the threshold with 30 trades.
ScoreInputs ==
  [rel_vol : {0, 3000, 9000}, pct_change : {-5000, 0, 14000, 20000},
   volume : {0, 60000}, vol_thresh : {0, 30000}, trade_count : {0, 30},
   min_trades : {min_trade_count},
   spread_ratio : {UnknownSpread, KnownSpread(-10000), KnownSpread(1000),
                   KnownSpread(50000)},
   spread_limit : {30000}, price_expansion_pct : {0, 8000},
   acceleration : BOOLEAN, volume_sustained : BOOLEAN]

ScoreOf(a) ==
  compute_quality_score(a.rel_vol, a.pct_change, a.volume, a.vol_thresh,
                        a.trade_count, a.min_trades, a.spread_ratio,
                        a.spread_limit, a.price_expansion_pct,
                        a.acceleration, a.volume_sustained)

\* A caller scores a candidate.
ComputeQualityScore(a) ==
  /\ calc.fn = "none"
  /\ Install([World EXCEPT !.calc = [fn |-> "compute_quality_score",
                                     args |-> <<a>>,
                                     result |-> <<ScoreOf(a)>>]])

\* The caller scores the same candidate with the other value of
\* volume_sustained.
ComputeQualityScoreAgain ==
  /\ calc.fn = "compute_quality_score"
  /\ Len(calc.args) = 1
  /\ \E a \in {[calc.args[1] EXCEPT !.volume_sustained = ~@]} :
       Install([World EXCEPT !.calc.args = Append(@, a),
                             !.calc.result = Append(@, ScoreOf(a))])

ScoreNext ==
  \/ \E a \in ScoreInputs : ComputeQualityScore(a)
  \/ ComputeQualityScoreAgain

ScoreSpec == Init /\ [][ScoreNext]_vars

\* Quotes of the feed, in cents: without a bid, tight, crossed, locked, wide
\* (0.10 / 0.40) and with a negative bid.
QuoteBookInputs ==
  {<<0, 1000>>, <<1000, 1005>>, <<1005, 1000>>, <<1000, 1000>>, <<10, 40>>,
   <<-100, 1000>>}

\* Fallback prices in cents: none, zero, below 1.00, below 5.00, above.
FallbackPrices == {NoneVal, 0, 50, 250, 1000}

\* handle_msg stores a quote (lines 977-991).
QuoteArrives(bid, ask) ==
  /\ calc.fn \in {"none", "get_spread_ratio"}
  /\ \E s \in Symbols :
       Install([handle_quote(World, s, bid, ask) EXCEPT !.calc = NoCalc])

\* A caller asks for the spread of a symbol.
GetSpreadRatio(fallback_price) ==
  /\ calc.fn \in {"none", "get_spread_ratio"}
  /\ \E s \in Symbols :
       Install([World EXCEPT !.calc =
                  [fn |-> "get_spread_ratio", args |-> <<s, fallback_price>>,
                   result |-> <<get_spread_ratio(latest_quotes,
                                                 minute_aggregates, now, s,
                                                 fallback_price)>>]])

SpreadNext ==
  \/ \E q \in QuoteBookInputs : QuoteArrives(q[1], q[2])
  \/ \E p \in FallbackPrices : GetSpreadRatio(p)

SpreadSpec == Init /\ [][SpreadNext]_vars

\* expectation_builder.classify_session (lines 78-87) on the ET minute of
\* the day.
classify_session(m) ==
  LET h == (m % 1440) \div 60
      mi == m % 60
  IN IF (4 <= h /\ h < 9) \/ (h = 9 /\ mi < 30) THEN "PREMARKET"
     ELSE IF (h = 9 /\ mi >= 30) \/ (9 < h /\ h < 16) THEN "REGULAR"
     ELSE IF 16 <= h /\ h < 20 THEN "POSTMARKET"
     ELSE "CLOSED"

MinutesOfDay == 0..1439

\* A quiet bar of minute m is evaluated by check_spike and the minute is
\* classified by the expectation builder; calc keeps the two labels.
SessionLabelled(m) ==
  /\ calc.fn = "none"
  /\ \E s \in Symbols :
       \E st \in {check_spike([World EXCEPT !.now = m], m, s, 0, 100, m, 1000,
                              1000, 1, 1000)} :
         Install([st EXCEPT !.calc = [fn |-> "classify_session",
                                      args |-> <<m>>,
                                      result |-> <<st.ev.session,
                                                   classify_session(m)>>]])

SessionNext == \E m \in MinutesOfDay : SessionLabelled(m)

SessionSpec == Init /\ [][SessionNext]_vars

----------------------------------------------------------------------------
(* The verification script (verify_alerts_advanced.py) *)

\* simulate_detection (lines 103-109) resets the globals of
\* polygon_websocket one by one. The module defines minute_aggregates and
\* rolling_volume_3min, which are cleared, and no momentum_counter (its
\* globals are lines 63-82): the third statement raises AttributeError, so
\* alert_tracker and price_history are not cleared, no bar is processed and
\* no symbol has a counter.
simulate_detection(W, symbol, all_bars) ==
  [W EXCEPT !.minute_aggregates = EmptyMap,
            !.rolling_volume_3min = EmptyMap,
            !.calc = [fn |-> "simulate_detection",
                      args |-> <<symbol, all_bars>>,
                      result |-> <<[raised |-> "AttributeError",
                                    bars_done |-> 0,
                                    momentum_counter |-> EmptyMap]>>]]

\* The script is run on the bars of a day.
SimulateDetection(all_bars) ==
  /\ calc.fn = "none"
  /\ \E s \in Symbols : Install(simulate_detection(World, s, all_bars))

VerifyNext == \E all_bars \in BarLists : SimulateDetection(all_bars)

VerifySpec == Init /\ [][VerifyNext]_vars

----------------------------------------------------------------------------
(* The quote lock (threading.Lock, line 85) and the threads that take it *)

MaxLockEvents == 2

LockThreads == {"runner", "main"}

\* Trades of the monitored feed, in cents and shares.
LockTrades == {<<1000, 100>>, <<1040, 40000>>}

\* tests/test_spread_calc.py starts its runner thread (lines 64-75); the
\* main thread sleeps.
StartSpreadCalc ==
  /\ locks.prog = "none"
  /\ World = Cold(now)
  /\ Install([World EXCEPT !.locks.prog = "test_spread_calc",
                           !.locks.pc.main = "sleep"])

\* polygon_websocket.run_session starts its runner thread (lines 1059-1066).
StartMonitor ==
  /\ locks.prog = "none"
  /\ Install([World EXCEPT !.locks.prog = "polygon_websocket"])

\* The handler of test_spread_calc (lines 22-59) for one quote: it takes
\* quote_lock, stores the quote and, for a symbol it has not printed yet,
\* calls get_spread_ratio inside the with block.
spread_calc_quote(W, symbol, bid, ask) ==
  IF bid # 0 /\ ask # 0
  THEN IF symbol \notin W.locks.processed /\ Cardinality(W.locks.processed) < 10
       THEN [handle_quote(W, symbol, bid, ask)
               EXCEPT !.locks.quote_lock = "runner",
                      !.locks.processed = @ \cup {symbol},
                      !.locks.pending = <<symbol>>,
                      !.locks.pc.runner = "get_spread_ratio"]
       ELSE handle_quote(W, symbol, bid, ask)
  ELSE W

SpreadCalcQuote(bid, ask) ==
  /\ locks.prog = "test_spread_calc"
  /\ locks.pc.runner = "idle"
  /\ locks.quote_lock = "free"
  /\ \E s \in Symbols : Install(spread_calc_quote(World, s, bid, ask))

\* The main thread of test_spread_calc wakes after its sleep (line 78).
SpreadCalcWakes ==
  /\ locks.prog = "test_spread_calc"
  /\ locks.pc.main = "sleep"
  /\ Install([World EXCEPT !.locks.pc.main = "acquire"])

\* The result loop (lines 82-94): the main thread takes quote_lock and calls
\* get_spread_ratio for the stored symbols inside the with block.
spread_calc_results(W) ==
  IF DOMAIN W.latest_quotes = {}
  THEN [W EXCEPT !.locks.pc.main = "done"]
  ELSE [W EXCEPT !.locks.quote_lock = "main",
                 !.locks.pc.main = "get_spread_ratio"]

SpreadCalcResults ==
  /\ locks.prog = "test_spread_calc"
  /\ locks.pc.main = "acquire"
  /\ locks.quote_lock = "free"
  /\ Install(spread_calc_results(World))

\* handle_msg of the monitor stores a quote (lines 977-991): the lock is
\* taken and released around the store.
MonitorQuote(bid, ask) ==
  /\ locks.prog = "polygon_websocket"
  /\ locks.pc.runner = "idle"
  /\ locks.quote_lock = "free"
  /\ hist.events < MaxLockEvents
  /\ \E s \in Symbols : \E W \in {Step(World, QuoteEvent(s, bid, ask))} :
       Install(W)

\* handle_msg of the monitor handles a trade (lines 993-1027) up to the call
\* of get_spread_ratio in check_spike (line 541); no lock is held there.
MonitorTrade(price, size) ==
  /\ locks.prog = "polygon_websocket"
  /\ locks.pc.runner = "idle"
  /\ hist.events < MaxLockEvents
  /\ \E s \in Symbols :
       Install([World EXCEPT !.locks.pending = <<s, price, size>>,
                             !.locks.pc.runner = "get_spread_ratio"])

\* get_spread_ratio (lines 298-306) takes quote_lock, which a Lock grants
\* only when no thread holds it, the caller included; it reads the quote,
\* releases the lock and returns, and the caller goes on: the monitor with
\* the rest of check_spike, the handler and the result loop of
\* test_spread_calc to the end of their with block.
get_spread_ratio_returns(W, t) ==
  IF W.locks.prog = "polygon_websocket"
  THEN [Step(W, TradeEvent(W.locks.pending[1], W.locks.pending[2],
                           W.locks.pending[3], 0))
          EXCEPT !.locks.pc[t] = "idle", !.locks.pending = <<>>,
                 !.locks.returned = @ + 1]
  ELSE [W EXCEPT !.locks.pc[t] = IF t = "main" THEN "done" ELSE "idle",
                 !.locks.pending = <<>>,
                 !.locks.returned = @ + 1]

GetSpreadRatioReturns(t) ==
  /\ locks.pc[t] = "get_spread_ratio"
  /\ locks.quote_lock = "free"
  /\ \E W \in {get_spread_ratio_returns(World, t)} : Install(W)

LockNext ==
  \/ StartSpreadCalc
  \/ StartMonitor
  \/ \E q \in QuoteBookInputs : SpreadCalcQuote(q[1], q[2])
  \/ SpreadCalcWakes
  \/ SpreadCalcResults
  \/ \E q \in QuoteBookInputs : MonitorQuote(q[1], q[2])
  \/ \E tr \in LockTrades : MonitorTrade(tr[1], tr[2])
  \/ \E t \in LockThreads : GetSpreadRatioReturns(t)

LockSpec == Init /\ [][LockNext]_vars

----------------------------------------------------------------------------
(* Properties of the staged detector *)

Stage2Kinds == {"BREAKOUT CONFIRMED", "ALT CONFIRM"}

HasKind(kinds, wanted) == \E i \in 1..Len(kinds) : kinds[i] \in wanted

SetupData(flag) == <<flag.setup_price, flag.setup_volume, flag.flag_minute>>

AlertsOf(s) == SelectSeq(sent, LAMBDA a : a.symbol = s)

\* The last step was a trade that check_spike evaluated after the initial state.
Evaluated == hist.op = "trade" /\ hist.events >= 1

\* C1: momentum_flags holds at most one flag per symbol; an evaluation creates
\* a flag only for a symbol that had none, and a flag that exists before and
\* after a step keeps its setup_price, setup_volume and flag_minute, also when
\* the evaluation passes Stage 1 again.
C1_FlagCreatedOnceAndKept ==
  [][\A s \in Symbols :
       /\ (hist'.op = "trade" /\ ev'.symbol = s /\ ev'.flag_created)
            => s \notin DOMAIN momentum_flags
       /\ (s \in DOMAIN momentum_flags /\ s \in DOMAIN momentum_flags')
            => SetupData(momentum_flags'[s]) = SetupData(momentum_flags[s])]_vars

\* A flagged symbol passes Stage 1 again at another price and keeps its flag.
C1_Stage1PassedAgain ==
  /\ Evaluated /\ ev.flag_before /\ ev.stage1_pass
  /\ ev.symbol \in DOMAIN momentum_flags
  /\ momentum_flags[ev.symbol].setup_price
       # minute_aggregates[<<ev.ts, ev.symbol>>].close

\* C2: on a feed whose trade timestamps never decrease, two consecutive
\* alerts of a symbol are at least ALERT_COOLDOWN_MINUTES apart, unless the
\* later one is a Stage-2 confirmation (the upgrade of a setup).
C2_ConsecutiveAlertsFiveMinutesApart ==
  \A s \in Symbols :
    s \notin hist.disordered =>
      \A i \in 1..(Len(AlertsOf(s)) - 1) :
        AlertsOf(s)[i + 1].kind \notin Stage2Kinds
          => AlertsOf(s)[i + 1].ts - AlertsOf(s)[i].ts >= ALERT_COOLDOWN_MINUTES

\* C3: an evaluation sends BREAKOUT CONFIRMED or ALT CONFIRM only for a flagged
\* symbol, with all five gates passed (ALT CONFIRM: with the primary path
\* failed and the alt path passed) and the recomputed quality at least 60
\* (alt: 58); after it the symbol has no flag and the quality is recorded.
C3_ConfirmationOnlyThroughGates ==
  HasKind(ev.alerts, Stage2Kinds) =>
    /\ ev.flag_at_stage2
    /\ HasKind(ev.alerts, {"BREAKOUT CONFIRMED"}) =>
         /\ ev.expansion_gate /\ ev.volume_sustained /\ ev.acceleration
         /\ ev.spread_gate /\ ev.trade_gate
         /\ ev.quality >= MinGatePrimary
    /\ HasKind(ev.alerts, {"ALT CONFIRM"}) =>
         /\ ~(ev.expansion_gate /\ ev.volume_sustained /\ ev.acceleration
                /\ ev.spread_gate /\ ev.trade_gate)
         /\ ev.alt_pass
         /\ ev.quality >= MinGateAlt
    /\ ev.symbol \notin DOMAIN momentum_flags
    /\ ev.symbol \in DOMAIN breakout_quality
    /\ breakout_quality[ev.symbol].quality = ev.quality
    /\ breakout_quality[ev.symbol].timestamp = ev.ts

\* An evaluation after the initial state has sent BREAKOUT CONFIRMED.
C3_BreakoutConfirmedSent ==
  Evaluated /\ HasKind(ev.alerts, {"BREAKOUT CONFIRMED"})

\* C4: on a feed whose trade timestamps never decrease, the rolling window of
\* a symbol has been shifted once for every minute boundary its trades have
\* crossed, and never by a trade inside a minute.
C4_OneShiftPerMinuteBoundary ==
  \A s \in DOMAIN hist.shifts :
    s \notin hist.disordered => hist.shifts[s] = hist.crossings[s]

\* C5: an in-session evaluation in which the Fast-Break conditions hold sends
\* a FAST-BREAK alert, whatever Stage 1 and Stage 2 did in it.
C5_FastBreakWheneverItsConditionsHold ==
  ev.fb_cond => HasKind(ev.alerts, {"FAST-BREAK"})

\* The minutes in which a symbol has a bar.
MinutesOf(s) == {k[1] : k \in {x \in DOMAIN minute_aggregates : x[2] = s}}

CountSent(kind, s, m) ==
  Cardinality({i \in 1..Len(sent) :
                 sent[i].kind = kind /\ sent[i].symbol = s /\ sent[i].ts = m})

\* C6: when all the trades of a symbol fall inside one minute, at most one
\* BREAKOUT CONFIRMED is sent for the symbol in that minute, however many
\* trades follow the one that confirmed.
C6_OneBreakoutPerMinute ==
  \A s \in Symbols :
    (s \notin hist.disordered /\ Cardinality(MinutesOf(s)) = 1)
      => \A m \in MinutesOf(s) : CountSent("BREAKOUT CONFIRMED", s, m) <= 1

\* C7: after an evaluation that sent a Stage-2 confirmation or a FAST-BREAK,
\* the alert tracker holds the time of that alert for the symbol.
C7_ConfirmationAndFastBreakMarkTracker ==
  (hist.op = "trade" /\ HasKind(ev.alerts, Stage2Kinds \cup {"FAST-BREAK"}))
    => /\ ev.symbol \in DOMAIN alert_tracker
       /\ alert_tracker[ev.symbol] = ev.ts

\* C8: an evaluation in which a flagged symbol passes the primary or the alt
\* path with a recomputed quality below the gate (60 primary, 58 alt) sends no
\* Stage-2 alert and leaves the flag in place, its setup data unchanged.
C8_QualityGateFailureKeepsFlag ==
  [][(/\ hist'.op = "trade"
      /\ ev'.flag_at_stage2
      /\ ev'.stage2_pass \/ ev'.alt_pass
      /\ ev'.quality < (IF ev'.stage2_pass THEN MinGatePrimary ELSE MinGateAlt))
       => /\ ~HasKind(ev'.alerts, Stage2Kinds)
          /\ \A i \in (Len(sent) + 1)..Len(sent') : sent'[i].kind \notin Stage2Kinds
          /\ ev'.symbol \in DOMAIN momentum_flags'
          /\ ev'.flag_before =>
               /\ ev'.symbol \in DOMAIN momentum_flags
               /\ momentum_flags'[ev'.symbol] = momentum_flags[ev'.symbol]
          /\ breakout_quality' = breakout_quality]_vars

\* A flagged symbol has passed the gates of Stage 2 and failed its quality gate.
C8_QualityGateFailed ==
  /\ Evaluated /\ ev.flag_before /\ ev.flag_at_stage2
  /\ ev.stage2_pass \/ ev.alt_pass
  /\ ev.quality < (IF ev.stage2_pass THEN MinGatePrimary ELSE MinGateAlt)
  /\ ev.symbol \in DOMAIN momentum_flags

\* C9: an evaluation of a flagged symbol more than 4 minutes after the flag,
\* with the expansion from setup_price below half of the required expansion,
\* drops the flag and sends no Stage-2 alert; with 4 minutes or less elapsed
\* the flag is never dropped by expiry.
C9_ExpiryOnlyAfterFourMinutes ==
  /\ (ev.flag_at_stage2 /\ ev.minutes_since_flag > 4
        /\ 2 * ev.expansion < ev.required)
       => /\ ev.outcome = "expired"
          /\ ev.symbol \notin DOMAIN momentum_flags
          /\ ~HasKind(ev.alerts, Stage2Kinds)
  /\ ev.outcome = "expired" => ev.minutes_since_flag > 4

\* A flag has expired in an evaluation after the initial state.
C9_FlagExpired ==
  Evaluated /\ ev.flag_before /\ ev.outcome = "expired"

\* C10: every bar with volume > 0 has low <= open <= high, low <= close <= high
\* and a trade count of at least 1, and its open is the price of the first
\* trade that landed in it, whatever trades followed.
C10_BarWellFormedAndOpenKept ==
  \A k \in DOMAIN minute_aggregates :
    minute_aggregates[k].volume > 0 =>
      /\ minute_aggregates[k].low <= minute_aggregates[k].open
      /\ minute_aggregates[k].open <= minute_aggregates[k].high
      /\ minute_aggregates[k].low <= minute_aggregates[k].close
      /\ minute_aggregates[k].close <= minute_aggregates[k].high
      /\ minute_aggregates[k].count >= 1
      /\ k \in DOMAIN hist.first_price
      /\ minute_aggregates[k].open = hist.first_price[k]

\* A bar holds several trades, the last at another price than the first.
C10_BarWithLaterTradeAtOtherPrice ==
  \E k \in DOMAIN minute_aggregates :
    /\ hist.events >= 1
    /\ minute_aggregates[k].count >= 2
    /\ minute_aggregates[k].close # minute_aggregates[k].open
    /\ minute_aggregates[k].low < minute_aggregates[k].high

\* C11: after the trades delivered so far, every stored bar with volume > 0
\* has a vwap field equal to value/volume (here: its floor in cents) that
\* lies within [low, high].
C11_StoredVwapIsValueOverVolume ==
  hist.events >= 1 =>
    \A k \in DOMAIN minute_aggregates :
      minute_aggregates[k].volume > 0 =>
        /\ minute_aggregates[k].vwap
             = minute_aggregates[k].value \div minute_aggregates[k].volume
        /\ minute_aggregates[k].low <= minute_aggregates[k].vwap
        /\ minute_aggregates[k].vwap <= minute_aggregates[k].high

\* C12: an evaluation whose minute is in the CLOSED session (before 04:00 or
\* from 20:00 ET) sends no alert and leaves the flags, the watch list, the
\* recorded confirmed quality and the alert tracker as they were, also when
\* the symbol has a flag.
C12_ClosedSessionEvaluationChangesNothing ==
  [][(hist'.op = "trade" /\ SessionOf(ev'.ts) = "CLOSED")
       => /\ sent' = sent
          /\ ev'.alerts = <<>>
          /\ momentum_flags' = momentum_flags
          /\ watch_alerts' = watch_alerts
          /\ breakout_quality' = breakout_quality
          /\ alert_tracker' = alert_tracker]_vars

\* A symbol whose flag is more than four minutes old has been evaluated at
\* 20:00 or later.
C12_FlaggedSymbolEvaluatedWhenClosed ==
  /\ Evaluated /\ SessionOf(ev.ts) = "CLOSED" /\ ev.outcome = "closed"
  /\ ev.flag_before
  /\ ev.symbol \in DOMAIN momentum_flags
  /\ ev.ts - momentum_flags[ev.symbol].flag_minute > 4

\* C13: a trade whose timestamp is in the CLOSED session changes nothing when
\* handle_msg processes it: the bars, the rolling volumes, the price history,
\* the flags and the alert tracker are the same after it as before it.
C13_ClosedSessionTradeChangesNothing ==
  [][(hist'.op = "trade" /\ SessionOf(ev'.ts) = "CLOSED")
       => /\ minute_aggregates' = minute_aggregates
          /\ rolling_volume_3min' = rolling_volume_3min
          /\ price_history' = price_history
          /\ momentum_flags' = momentum_flags
          /\ alert_tracker' = alert_tracker]_vars

\* C14: a trade whose timestamp is earlier than the latest timestamp already
\* seen for its symbol modifies no bar, neither the bar of its own (older)
\* minute nor the current one.
C14_LateTradeModifiesNoBar ==
  [][(/\ hist'.op = "trade"
      /\ ev'.symbol \in DOMAIN hist.last_ts
      /\ ev'.ts < hist.last_ts[ev'.symbol])
       => minute_aggregates' = minute_aggregates]_vars

\* A message that lacks a symbol or a price.
Lacking(msg) ==
  msg.type = "trade" /\ ("symbol" \in msg.absent \/ "price" \in msg.absent)

DetectorState(W) ==
  <<W.minute_aggregates, W.latest_quotes, W.momentum_flags, W.watch_alerts,
    W.breakout_quality, W.rolling_volume_3min, W.alert_tracker,
    W.price_history>>

\* The trade the last step delivered, read off the state before and after it,
\* with a sink that accepts every request.
LastTradeDelivered ==
  TradeEvent(ev'.symbol,
             minute_aggregates'[<<ev'.ts, ev'.symbol>>].close,
             minute_aggregates'[<<ev'.ts, ev'.symbol>>].volume
               - Get(minute_aggregates, <<ev'.ts, ev'.symbol>>, NewBar).volume,
             now - ev'.ts)

\* C17: when a request to the sink fails during an evaluation (another status
\* than 200, or an exception of the request), no exception leaves check_spike
\* and the globals are after it what they are after the same trade with a
\* sink that accepts: a Stage-2 confirmation has cleared the flag and
\* recorded the confirmed quality, so later events are evaluated as usual.
C17_FailedSendChangesStateAsSuccess ==
  [][(hist'.op = "trade" /\ \E i \in 1..Len(ev'.delivered) : ~ev'.delivered[i])
       => /\ ~ev'.raised
          /\ DetectorState(World') = DetectorState(Step(World, LastTradeDelivered))
          /\ HasKind(ev'.alerts, Stage2Kinds)
               => /\ ev'.symbol \notin DOMAIN momentum_flags'
                  /\ ev'.symbol \in DOMAIN breakout_quality'
                  /\ breakout_quality'[ev'.symbol].quality = ev'.quality]_vars

\* A confirmation was recorded while the sink never received one, and a later
\* trade of the symbol has been evaluated without an alert.
C17_EvaluatedAfterLostConfirmation ==
  /\ Evaluated /\ ev.outcome = "done" /\ ev.alerts = <<>>
  /\ ev.symbol \in DOMAIN breakout_quality
  /\ ev.symbol \notin DOMAIN momentum_flags
  /\ \A i \in 1..Len(sent) : sent[i].kind \notin Stage2Kinds

\* C16: every write of a thread to the bars, the rolling volumes, the flags,
\* the alert tracker or the price history is made with the data lock held,
\* and every write to the quote book with the quote lock held.
C16_GuardedStructuresWrittenUnderTheirLock ==
  \A n \in threads.access.touched : GuardedBy[n] \in threads.access.holding

\* C20: at most one ingest thread is alive at any time, and the thread a
\* session started has delivered no message to handle_msg after run_session
\* returned.
C20_OneIngestThreadAndNoneAfterReturn ==
  /\ Cardinality({k \in 1..Len(threads.ws) : threads.ws[k].alive}) <= 1
  /\ \A k \in 1..Len(threads.ws) : threads.ws[k].after_return = 0

\* C18: the Telegram queue never holds more messages than its capacity, and a
\* call of queue_telegram_message that found the queue full has returned
\* True, also when a worker took messages from the queue during the call.
C18_FullQueueCallReturnsTrue ==
  /\ Len(telegram.queue) <= QueueMax
  /\ (telegram.call.done /\ telegram.call.found_full) => telegram.call.returned

\* C19: the worker hands the messages to the sink in the order in which they
\* were enqueued, whatever stops, restarts and drops of the oldest message
\* have happened.
C19_MessagesPostedInEnqueueOrder ==
  \A i, j \in 1..Len(telegram.posted) :
    i < j => telegram.posted[i] < telegram.posted[j]

\* ---------------------------------------------------------------------------
\* The same feed handled at two wall-clock times.
\* ---------------------------------------------------------------------------

\* The alerts handle_msg emits for a trade stamped with the current minute
\* when it is handled `delay` minutes after that minute began to be current.
AlertsHandledAfter(delay, symbol, price, size) ==
  handle_trade([World EXCEPT !.now = @ + delay], now + delay,
               symbol, price, size, now).ev.alerts

\* C21: for a fixed sequence of events the alerts handle_msg emits are the
\* same whatever the wall-clock time at which an event is handled: after any
\* history, the next trade of the feed draws the same alerts when it is
\* handled within its own minute as when it is handled one minute later.
C21_AlertsIndependentOfProcessingTime ==
  \A s \in Symbols, p \in Prices, z \in Sizes :
    AlertsHandledAfter(0, s, p, z) = AlertsHandledAfter(1, s, p, z)

\* ---------------------------------------------------------------------------
\* Replay drivers.
\* ---------------------------------------------------------------------------

\* C22: replaying the same bars twice through backtest_symbol records the
\* same Watch, Stage-1 and Stage-2 alerts both times: when the second call
\* has processed its last bar, its result equals the result of the first.
C22_SecondReplayRecordsSameAlerts ==
  (replay.driver = "flatfiles" /\ replay.run = 2
     /\ replay.i = Len(replay.bars))
  => replay.alerts[2] = replay.alerts[1]

\* C26: at every moment each symbol's rolling volume window has exactly
\* three entries.
C26_WindowHasThreeEntries ==
  \A s \in DOMAIN rolling_volume_3min : Len(rolling_volume_3min[s]) = 3

\* The last three volumes before the evaluated minute, a missing one being 0.
PreviousThree(completed) ==
  SubSeq(<<0, 0, 0>> \o completed, Len(completed) + 1, Len(completed) + 3)

\* C27: the window check_spike reads holds the volumes of the three
\* completed minutes before the minute it evaluates, never that minute's
\* own volume.
C27_WindowIsPreviousThreeMinutes ==
  replay.evaluated => replay.window = PreviousThree(replay.completed)

\* ---------------------------------------------------------------------------
\* The snapshot file.
\* ---------------------------------------------------------------------------

\* run_session has just called load_previous_minute on a file of today.
LoadStep ==
  threads.main = "loop" /\ threads'.main = "monitor"
    /\ threads.file.day = Day(now)

\* C23: save_previous_minute followed by load_previous_minute yields the bar
\* map that was saved, with the same (minute, symbol) keys and field values,
\* and a later trade in a restored minute continues the restored bar: no
\* minute of a symbol ever has two bars.
C23_LoadRestoresSavedBars ==
  [][/\ (LoadStep /\ ~threads.file.corrupt)
          => minute_aggregates' = threads.file.memory
     /\ \A k1, k2 \in DOMAIN minute_aggregates' :
          (k1[1] = k2[1] /\ k1[2] = k2[2]) => k1 = k2]_vars

C25_SessionStartResetsSymbolState ==
  [][(threads.main = "loop" /\ threads'.main = "monitor"
        /\ Len(threads.ws) >= 1)
       => /\ momentum_flags' = EmptyMap
          /\ \A s \in DOMAIN rolling_volume_3min' :
               rolling_volume_3min'[s] = <<0, 0, 0>>
          /\ alert_tracker' = EmptyMap]_vars

\* ---------------------------------------------------------------------------
\* The Watch stage and the higher stages.
\* ---------------------------------------------------------------------------

\* C28: a Watch alert is for observation only. An evaluation changes the
\* flags only by a Stage-1 creation, a Stage-2 confirmation or an expiry,
\* never by its Watch stage; and whatever the cooldown the Watch stage has
\* set, a Stage-2 confirmation that passes its gates and a Fast-Break whose
\* condition holds are sent.
C28_WatchHoldsNoHigherStageBack ==
  [][Evaluated'
       => /\ (~ev'.flag_created /\ ev'.outcome # "expired"
                /\ ~HasKind(ev'.alerts, Stage2Kinds))
               => momentum_flags' = momentum_flags
          /\ (ev'.flag_at_stage2 /\ (ev'.stage2_pass \/ ev'.alt_pass)
                /\ ev'.outcome = "done")
               => HasKind(ev'.alerts, Stage2Kinds)
          /\ (ev'.fb_cond /\ ev'.outcome = "done")
               => HasKind(ev'.alerts, {"FAST-BREAK"})]_vars

\* A Stage-2 or Stage-3 alert has been sent less than 5 minutes after a Watch
\* alert for the symbol, sent in an earlier minute, has set the cooldown.
C28_HigherStageAlertDuringWatchCooldown ==
  /\ Evaluated
  /\ HasKind(ev.alerts, Stage2Kinds \cup {"FAST-BREAK"})
  /\ \E i \in 1..Len(sent) :
       /\ sent[i].kind = "WATCH" /\ sent[i].symbol = ev.symbol
       /\ sent[i].ts < ev.ts /\ ev.ts - sent[i].ts < ALERT_COOLDOWN_MINUTES
  /\ ev.symbol \in DOMAIN alert_tracker
  /\ ~can_send_alert(alert_tracker, ev.symbol, ev.ts)

\* ---------------------------------------------------------------------------

\* The test has made exactly these calls, each on the window given.
TestHasCalled(minute, inputs, windows) ==
  /\ replay.driver = "test"
  /\ replay.start = minute
  /\ replay.bars = inputs
  /\ replay.completed = windows

PremarketMinute ==
  [open |-> 1000, close |-> 1040, pct |-> 4000, volume |-> 27000,
   transactions |-> 100, vwap |-> 1000]

\* C29: in PREMARKET, on a window of three minutes of 10 000 and with no
\* quote stored, the call of check_spike for a minute of open 10.00, close
\* 10.40 (+4.0 %), volume 27 000 and 100 trades leaves a flag whose
\* preliminary quality is at least 50 and sends no Stage-2 alert.
C29_PremarketMinuteCreatesFlag ==
  TestHasCalled(510, <<PremarketMinute>>, <<(<<10000, 10000, 10000>>)>>)
    => /\ ev.symbol \in DOMAIN momentum_flags
       /\ momentum_flags[ev.symbol].quality_score >= 500
       /\ ~HasKind(ev.alerts, Stage2Kinds)

RegularSetupMinute ==
  [open |-> 1000, close |-> 1050, pct |-> 5000, volume |-> 70000,
   transactions |-> 150, vwap |-> 1000]

RegularFollowMinute ==
  [open |-> 1050, close |-> 1051, pct |-> 95, volume |-> 42000,
   transactions |-> 150, vwap |-> 1050]

\* C30: in REGULAR, after the call for 10:00 (+5.0 %, volume 70 000, 150
\* trades, on a window averaging 25 000) and the calls for 10:01 and 10:02,
\* each for a minute that closes just above the 10:00 close with 0.6 times
\* its volume and a relative volume of 2.9, the call for 10:02 has sent an
\* alt-path Stage-2 alert of quality at least 58.
C30_AltPathConfirmsAtSecondMinute ==
  TestHasCalled(600,
                <<RegularSetupMinute, RegularFollowMinute, RegularFollowMinute>>,
                <<(<<25000, 25000, 25000>>), (<<14500, 14500, 14500>>),
                  (<<14500, 14500, 14500>>)>>)
    => /\ HasKind(ev.alerts, {"ALT CONFIRM"})
       /\ ev.quality >= 580


\* ---------------------------------------------------------------------------

\* C31: compute_quality_score returns a value in [0, 100] (0..1000 tenths)
\* whatever its arguments: unknown spread, a spread wider than the limit, a
\* crossed quote's negative spread, no trades, a negative percent change.
C31_ScoreWithinZeroAndHundred ==
  calc.fn = "compute_quality_score"
    => \A i \in 1..Len(calc.result) :
         calc.result[i] >= 0 /\ calc.result[i] <= 1000

\* A candidate with a crossed quote has been scored at the upper clamp and
\* then, without sustained volume and its follow-through credit, below it.
C31_ScoredAtTheClamp ==
  /\ calc.fn = "compute_quality_score"
  /\ Len(calc.result) = 2
  /\ calc.args[1].spread_ratio.known /\ calc.args[1].spread_ratio.v < 0
  /\ calc.result[1] = 1000
  /\ calc.result[2] < 1000

\* ---------------------------------------------------------------------------

\* The candidate of 14 % on a relative volume of 3, twice the volume
\* threshold, 30 trades, a tight spread and no expansion has been scored
\* with both values of volume_sustained.
ParabolicPairScored ==
  /\ calc.fn = "compute_quality_score"
  /\ Len(calc.result) = 2
  /\ \E a \in {calc.args[1]} :
       /\ a.pct_change = 14000 /\ a.rel_vol = 3000
       /\ a.vol_thresh > 0 /\ a.volume = 2 * a.vol_thresh
       /\ a.trade_count = 30 /\ a.price_expansion_pct = 0
       /\ a.spread_ratio = KnownSpread(1000)

\* The score with volume_sustained true minus the score with it false, in
\* tenths.
SustainedMinusUnsustained ==
  IF calc.args[1].volume_sustained THEN calc.result[1] - calc.result[2]
  ELSE calc.result[2] - calc.result[1]

\* C32 as stated: the score without sustained volume is strictly below the
\* score with it, and the difference is exactly the parabolic penalty,
\* (min(14 - 11, 6) / 6) * 6 = 3.0.
C32_DifferenceIsParabolicPenalty ==
  ParabolicPairScored
    => SustainedMinusUnsustained > 0 /\ SustainedMinusUnsustained = 30

\* C32 as amended: the score without sustained volume is strictly below the
\* score with it, and the difference is the parabolic penalty 3.0 plus the
\* follow-through credit for sustained volume, 0.3 * 18 = 5.4.
C32_DifferenceIsPenaltyPlusCredit ==
  ParabolicPairScored
    => SustainedMinusUnsustained > 0 /\ SustainedMinusUnsustained = 84

\* The pair has been scored, first without and then with sustained volume,
\* for a candidate that is not accelerating.
C32_PairScoredWithoutAcceleration ==
  /\ ParabolicPairScored
  /\ ~calc.args[1].volume_sustained /\ ~calc.args[1].acceleration
  /\ calc.result = <<612, 696>>

\* ---------------------------------------------------------------------------

\* C33: whatever quotes handle_msg has stored and whatever the fallback
\* price, get_spread_ratio returns unknown or a ratio in (0, 1] (in
\* millionths, 1..1000000).
C33_SpreadUnknownOrInUnitInterval ==
  calc.fn = "get_spread_ratio"
    => \A i \in 1..Len(calc.result) :
         \/ ~calc.result[i].known
         \/ calc.result[i].v > 0 /\ calc.result[i].v <= 1000000

\* ---------------------------------------------------------------------------

\* The session of the ET minute m of the day, by the table of the trading
\* day: 04:00-09:29, 09:30-15:59, 16:00-19:59, closed otherwise.
TableSession(m) ==
  IF 240 <= m /\ m <= 569 THEN "PREMARKET"
  ELSE IF 570 <= m /\ m <= 959 THEN "REGULAR"
  ELSE IF 960 <= m /\ m <= 1199 THEN "POSTMARKET"
  ELSE "CLOSED"

\* C34: for every ET minute of the day, check_spike and classify_session
\* give the same session label, and it is the label of the table.
C34_SessionLabelsAgreeWithTable ==
  calc.fn = "classify_session"
    => /\ calc.result[1] = calc.result[2]
       /\ calc.result[1] = TableSession(calc.args[1])

\* The opening minute 09:30 has been labelled REGULAR by check_spike.
C34_OpeningMinuteLabelled ==
  /\ calc.fn = "classify_session"
  /\ calc.args = <<570>>
  /\ ev.ts = 570 /\ ev.session = "REGULAR"
  /\ calc.result = <<"REGULAR", "REGULAR">>

\* ---------------------------------------------------------------------------

\* The counter the claim describes, after the bars from number i on: a bar
\* meets the persistence criteria when its volume is at least twice the
\* average of the three volumes before it and its percent change is at least
\* 3.8; the counter goes up by 1 on such a bar and down by 1, not below 0, on
\* any other.
RECURSIVE PersistenceCount(_, _, _)
PersistenceCount(bars, i, counter) ==
  IF i > Len(bars) THEN counter
  ELSE LET before == [j \in 1..3 |-> IF i - 4 + j >= 1
                                     THEN bars[i - 4 + j].volume ELSE 0]
           relvol_ok == 3 * bars[i].volume
                          >= 2 * Max(before[1] + before[2] + before[3], 3)
           pct_ok == BarPct(bars[i]) >= 3800
       IN PersistenceCount(bars, i + 1,
                           IF relvol_ok /\ pct_ok THEN counter + 1
                           ELSE Max(0, counter - 1))

\* C35: after the bars of a symbol have been processed, its momentum counter
\* has gone up by 1 on each bar that meets the persistence criteria and down
\* by 1, floored at 0, on each bar that does not; it is never negative.
C35_CounterFollowsPersistence ==
  calc.fn = "simulate_detection"
    => \E symbol \in {calc.args[1]}, bars \in {calc.args[2]} :
         \E r \in {calc.result[1]} :
           /\ r.raised = "none"
           /\ symbol \in DOMAIN r.momentum_counter
           /\ r.momentum_counter[symbol] >= 0
           /\ r.momentum_counter[symbol] = PersistenceCount(bars, 1, 0)

\* ---------------------------------------------------------------------------

\* The rows of historical_data/stats_cache.csv, written by
\* update_historical_stats.py: the symbol trades 50 000 shares on an average
\* day. polygon_websocket.py never opens the file.
stats_cache == [s \in Symbols |-> [avg_volume_20d |-> 50000]]

\* The liquidity score of a symbol in thousandths:
\* min(1, avg_volume_20d / 1 000 000), and 0.5 without historical data.
LiquidityScore(symbol) ==
  IF symbol \in DOMAIN stats_cache
  THEN Min(1000, stats_cache[symbol].avg_volume_20d \div 1000)
  ELSE 500

\* C36: for a symbol whose liquidity score is below 0.10, an evaluation by
\* check_spike sends no alert of any kind, records no watch alert and leaves
\* no flag, whatever the bar.
C36_IlliquidSymbolIsSkipped ==
  (Evaluated /\ LiquidityScore(ev.symbol) < 100)
    => /\ ev.alerts = <<>>
       /\ ~ev.flag_created
       /\ ev.symbol \notin DOMAIN momentum_flags

\* ---------------------------------------------------------------------------

\* C37: no thread waits for a lock it holds itself: a thread that has
\* called get_spread_ratio is not the owner of quote_lock, so that the
\* call can take the lock and return.
C37_NoThreadWaitsForItsOwnLock ==
  \A t \in LockThreads :
    locks.pc[t] = "get_spread_ratio" => locks.quote_lock # t

\* ---------------------------------------------------------------------------

\* The worker threads that have passed the test of telegram_worker_running
\* and are taking a message from the queue or sending one.
ConsumingWorkers ==
  {w \in 1..Len(telegram.workers) :
     telegram.workers[w].alive /\ telegram.workers[w].pc \in {"get", "post"}}

\* C38: whatever the interleaving of start_telegram_worker,
\* stop_telegram_worker and check_telegram_worker_health with the steps of
\* the workers, at most one worker thread is consuming the queue.
C38_AtMostOneWorkerConsumes == Cardinality(ConsumingWorkers) <= 1

\* Some symbol is flagged.
AnyFlag == \E s \in Symbols : Flagged(s)

\* A symbol is flagged and its next trade arrives before the sessions close.
FlagWithTradesAhead ==
  AnyFlag /\ \E t \in FlagTrades : SessionOf(now + t[1]) # "CLOSED"

FlatfilesBarFed ==
  replay.driver = "flatfiles" /\ replay.evaluated /\ replay.i >= 1

\* backtest_symbol has recorded an alert of the stage for the bar it has fed.
RecordedForBar(stage) ==
  \E i \in 1..Len(replay.alerts[replay.run]) :
    /\ replay.alerts[replay.run][i].stage = stage
    /\ replay.alerts[replay.run][i].timestamp = ev.ts

\* C40: backtest_symbol records a Stage-2 alert for a bar exactly when
\* check_spike has emitted a Stage-2 confirmation on that bar, and a Stage-1
\* alert exactly when check_spike has created a flag on that bar; so an
\* expiry is not recorded and a flag created and confirmed by one
\* evaluation is recorded.
C40_RecordsFollowCheckSpike ==
  FlatfilesBarFed
    => /\ RecordedForBar(2) <=> HasKind(ev.alerts, Stage2Kinds)
       /\ RecordedForBar(1) <=> ev.flag_created

====
